---- MODULE Spec2Model ----
(***************************************************************************)
(* Model of the cv-screener query side: the response cache                 *)
(* (api/rag/cache.py), the hybrid retriever (api/rag/reranker.py) and the  *)
(* conversational chain (api/rag/chain.py).                                *)
(*                                                                         *)
(* Strings are sequences of characters (questions) or of tokens (answers). *)
(* Optional values are sequences of length 0 (None) or 1.                  *)
(* Scores are exact fractions [num, den] so that min-max scaling and the   *)
(* weighted sum are computed without rounding.                             *)
(***************************************************************************)
EXTENDS Integers, Sequences, FiniteSets, Bags, TLC

VARIABLES
    cache,                 \* MemoryCache.cache : key -> [value, expires_at]
    stats,                 \* ResponseCache.stats
    now,                   \* time.time()
    conversation_history,  \* ConversationalRAGChain.conversation_history
    max_history,           \* ConversationalRAGChain.max_history
    cache_enabled,         \* whether the chain was built with a cache
    corpus,                \* chunk texts stored in the embeddings table
    metrics,               \* MetricsCollector counters
    calls,                 \* number of operations performed so far
    last,                  \* observation of the most recent operation
    vector_results,        \* input of _merge_and_rerank
    bm25_results,          \* input of _merge_and_rerank
    alpha,                 \* HybridRetriever.alpha, as alpha / AlphaDen
    top_k_in,              \* top_k argument of HybridRetriever.retrieve
    rank_pc,               \* "idle" | "start" | "done"
    hybrid_results,        \* return value of _merge_and_rerank
    final_results,         \* return value of HybridRetriever.retrieve
    docs_in,               \* argument of _format_context_with_quality_tiers
    context_out,           \* its return value, as the list of context parts
    response_in,           \* response argument of validate_response
    sources_in,            \* sources argument of validate_response
    context_in,            \* context argument of validate_response
    validation,            \* return value of PromptOptimizer.validate_response
    text_pc,               \* "idle" | "start" | "done"
    turn_clients,          \* for each turn of conversation_history, the client
                           \* whose request appended it
    served,                \* observation of the most recent POST /query
    threads,               \* per thread: the MemoryCache call it is executing
    documents_table,       \* table documents: url -> content_hash
    embeddings_table,      \* table embeddings: bag of rows
    run,                   \* observation of the most recent embedder operation
    bm25_index,            \* HybridRetriever.bm25_index: None or the BM25Okapi
    documents_cache        \* HybridRetriever.documents_cache

cacheVars == <<cache, stats, now>>
chainVars == <<conversation_history, max_history, cache_enabled, corpus, metrics>>
rankVars  == <<vector_results, bm25_results, alpha, top_k_in, rank_pc,
               hybrid_results, final_results>>
textVars  == <<docs_in, context_out, response_in, sources_in, context_in,
               validation, text_pc>>
appVars   == <<turn_clients, served>>
indexVars == <<bm25_index, documents_cache>>
restVars  == <<threads, documents_table, embeddings_table, run, indexVars>>
\* everything the chain, the cache, the ranking and the text operations own
coreVars  == <<cache, stats, now, conversation_history, max_history,
               cache_enabled, corpus, metrics, calls, last,
               vector_results, bm25_results, alpha, top_k_in, rank_pc,
               hybrid_results, final_results,
               docs_in, context_out, response_in, sources_in, context_in,
               validation, text_pc, turn_clients, served>>
vars      == <<cache, stats, now, conversation_history, max_history,
               cache_enabled, corpus, metrics, calls, last,
               vector_results, bm25_results, alpha, top_k_in, rank_pc,
               hybrid_results, final_results,
               docs_in, context_out, response_in, sources_in, context_in,
               validation, text_pc, turn_clients, served, threads,
               documents_table, embeddings_table, run,
               bm25_index, documents_cache>>

----------------------------------------------------------------------------
(* Bounds *)

MaxTime    == 2    \* the clock runs 0..MaxTime
MaxCalls   == 2    \* chain operations per behaviour
MaxCacheOps == 3   \* cache operations per behaviour of CacheSpec
MaxHistory == 1    \* largest configured max_history
MaxTopK    == 2    \* largest requested top_k
Ttl        == 1    \* ResponseCache.ttl (configured, seconds)
MaxVec     == 2    \* HybridRetriever.top_k_vector: length of the vector list
MaxBm25    == 2    \* HybridRetriever.top_k_bm25: length of the BM25 list
MaxScore   == 2    \* raw scores range over 0..MaxScore
AlphaDen   == 2    \* alpha ranges over 0/AlphaDen .. AlphaDen/AlphaDen
MaxDocs    == 4    \* longest result list handed to the context formatter
MaxParts   == 3    \* fragments per validated answer
MaxSources == 2    \* sources handed to the validator
MaxRuns    == 2    \* process_documents runs per behaviour
MaxChunks  == 3    \* chunks of the longest document
BatchSize  == 2    \* EmbeddingGenerator.batch_size (configured)
MaxRows    == 3    \* rows that table embeddings can hold
MaxIndexOps == 3   \* searches and refreshes per behaviour of IndexSpec

DefaultTopK == 5   \* chain.py: k = top_k or 5

----------------------------------------------------------------------------
(* Generic helpers *)

None == <<>>
Some(v) == <<v>>

Range(s) == {s[i] : i \in 1..Len(s)}

RECURSIVE ListsUpTo(_, _)
ListsUpTo(S, n) ==
    IF n = 0 THEN {<<>>}
    ELSE LET shorter == ListsUpTo(S, n - 1)
         IN shorter \cup {Append(l, x) : l \in {t \in shorter : Len(t) = n - 1}, x \in S}

Min(S) == CHOOSE x \in S : \A y \in S : x <= y
Max(S) == CHOOSE x \in S : \A y \in S : x >= y

----------------------------------------------------------------------------
(* Strings: str.lower, str.strip, str.split, " ".join *)

Whitespace  == {" "}

Punctuation == {"?"}

Lower(s) ==
    [i \in 1..Len(s) |->
        IF s[i] = "A" THEN "a" ELSE IF s[i] = "I" THEN "i"
        ELSE IF s[i] = "S" THEN "s" ELSE s[i]]

RECURSIVE LStrip(_)
LStrip(s) ==
    IF s # <<>> /\ Head(s) \in Whitespace THEN LStrip(Tail(s)) ELSE s

RECURSIVE RStrip(_)
RStrip(s) ==
    IF s # <<>> /\ s[Len(s)] \in Whitespace
    THEN RStrip(SubSeq(s, 1, Len(s) - 1)) ELSE s

Strip(s) == RStrip(LStrip(s))

\* str.split(): the maximal runs of non-whitespace characters
RECURSIVE Split(_)
Split(s) ==
    LET t == LStrip(s) IN
    IF t = <<>> THEN <<>>
    ELSE LET ends == {i \in 1..Len(t) : t[i] \in Whitespace}
             n    == IF ends = {} THEN Len(t) ELSE Min(ends) - 1
         IN <<SubSeq(t, 1, n)>> \o Split(SubSeq(t, n + 1, Len(t)))

\* " ".join(words)
RECURSIVE Join(_)
Join(words) ==
    IF words = <<>> THEN <<>>
    ELSE IF Len(words) = 1 THEN words[1]
    ELSE words[1] \o <<" ">> \o Join(Tail(words))

----------------------------------------------------------------------------
(* Data drawn by the operations *)

\* raw questions: a word, and its variants in letter case, surrounding and
\* internal whitespace and trailing punctuation
Questions ==
    {<<"a">>, <<"A">>, <<" ", "a">>, <<"a", "?">>,
     <<"a", " ", "a">>, <<"a", " ", " ", "a">>}

\* questions as the /query endpoint hands them to the chain: stripped, one word
ChainQuestions == {q \in Questions : Strip(q) = q /\ Len(Split(q)) = 1}

\* top_k as the chain receives it: 0 stands for None
ChainTopKs == {0, 1}

Chunks == {"c1"}

ErrorTexts == {"timeout"}

\* texts the completion provider can produce, as sequences of words
Answers == {<<"skills">>}

\* top_k values that reach the response cache
CacheTopKs == {1, 2}

\* 1 - cosine distance between the query embedding and the chunk embedding,
\* in tenths; a fixed geometry with no ties for one query
Similarity(q, c) == IF c = "c1" THEN 5 + Len(q) ELSE 9 - Len(q)

Doc(q, c) == [content |-> c, similarity |-> Similarity(q, c)]

----------------------------------------------------------------------------
(* MemoryCache *)

Remove(c, key) == [x \in DOMAIN c \ {key} |-> c[x]]

\* a get that skips the expiry test
MemoryCache_get_noexpiry(c, key, t) ==
    IF key \notin DOMAIN c
    THEN [result |-> None, cache |-> c]
    ELSE [result |-> Some(c[key].value), cache |-> c]

MemoryCache_get(c, key, t) ==
    IF key \notin DOMAIN c
    THEN [result |-> None, cache |-> c]
    ELSE IF t > c[key].expires_at
         THEN [result |-> None, cache |-> Remove(c, key)]
         ELSE [result |-> Some(c[key].value), cache |-> c]

MemoryCache_set(c, key, value, ttl, t) ==
    [x \in DOMAIN c \cup {key} |->
        IF x = key THEN [value |-> value, expires_at |-> t + ttl] ELSE c[x]]

MemoryCache_clear(c) == <<>>

----------------------------------------------------------------------------
(* ResponseCache *)

ResponseCacheEnabled == TRUE

\* the key string f"{normalized}:{top_k}", kept as its two parts, where
\* normalized is " ".join(query.lower().strip().split())
generate_cache_key(query, top_k) == <<Join(Split(Strip(Lower(query)))), top_k>>

ResponseCache_get(c, st, query, top_k, t) ==
    IF ~ResponseCacheEnabled
    THEN [result |-> None, cache |-> c, stats |-> st]
    ELSE LET r == MemoryCache_get(c, generate_cache_key(query, top_k), t)
         IN [result |-> r.result,
             cache  |-> r.cache,
             stats  |-> IF r.result # None
                        THEN [st EXCEPT !.hits = @ + 1]
                        ELSE [st EXCEPT !.misses = @ + 1]]

ResponseCache_set(c, st, query, top_k, response, sources, t) ==
    IF ~ResponseCacheEnabled
    THEN [cache |-> c, stats |-> st]
    ELSE [cache |-> MemoryCache_set(c, generate_cache_key(query, top_k),
                                    [response |-> response, sources |-> sources,
                                     timestamp |-> t],
                                    Ttl, t),
          stats |-> [st EXCEPT !.sets = @ + 1]]

ZeroStats == [hits |-> 0, misses |-> 0, sets |-> 0]

----------------------------------------------------------------------------
(* Initial values shared by the specifications *)

NoOp == [op |-> "none"]

ZeroMetrics == [cache_hits |-> 0, cache_misses |-> 0,
                requests_success |-> 0, requests_error |-> 0, traces |-> <<>>]

CacheInit == cache = <<>> /\ stats = ZeroStats /\ now = 0

ChainIdle ==
    /\ conversation_history = <<>>
    /\ max_history = 0
    /\ cache_enabled = TRUE
    /\ corpus = {}
    /\ metrics = ZeroMetrics

RankIdle ==
    /\ vector_results = <<>>
    /\ bm25_results = <<>>
    /\ alpha = 0
    /\ top_k_in = 1
    /\ rank_pc = "idle"
    /\ hybrid_results = <<>>
    /\ final_results = <<>>

AppIdle == turn_clients = <<>> /\ served = NoOp

Threads == {"t1", "t2"}

\* a thread that is not inside a MemoryCache call
IdleThread == [pc |-> "idle", op |-> "none", key |-> "", entry |-> None,
               outcome |-> "none", result |-> None, at |-> 0]

\* no thread inside a MemoryCache call, an empty database, and the index as
\* HybridRetriever.__init__ leaves it
RestIdle ==
    /\ threads = [t \in Threads |-> IdleThread]
    /\ documents_table = <<>>
    /\ embeddings_table = EmptyBag
    /\ run = NoOp
    /\ bm25_index = None
    /\ documents_cache = <<>>

TextIdle ==
    /\ docs_in = <<>>
    /\ context_out = <<>>
    /\ response_in = <<>>
    /\ sources_in = <<>>
    /\ context_in = <<>>
    /\ validation = <<>>
    /\ text_pc = "idle"

\* every component as it is constructed, before any operation
IdleInit ==
    /\ CacheInit
    /\ ChainIdle
    /\ RankIdle
    /\ TextIdle
    /\ AppIdle
    /\ RestIdle
    /\ calls = 0
    /\ last = NoOp

\* time.time() moves forward between operations
Tick ==
    /\ now < MaxTime
    /\ now' = now + 1
    /\ UNCHANGED <<cache, stats, calls, last, chainVars, rankVars, textVars, appVars, restVars>>

----------------------------------------------------------------------------
(* Specification CacheSpec: a ResponseCache over a MemoryCache, driven     *)
(* directly by set / get / clear and the clock.                            *)

CacheSet(q, k, response, sources) ==
    /\ calls < MaxCacheOps
    /\ LET r == ResponseCache_set(cache, stats, q, k, response, sources, now)
       IN /\ cache' = r.cache
          /\ stats' = r.stats
    /\ calls' = calls + 1
    /\ last' = [op |-> "set"]
    /\ UNCHANGED <<now, chainVars, rankVars, textVars, appVars, restVars>>

CacheGet(q, k) ==
    /\ calls < MaxCacheOps
    /\ LET r == ResponseCache_get(cache, stats, q, k, now)
       IN /\ cache' = r.cache
          /\ stats' = r.stats
          /\ last' = [op |-> "get", q |-> q, k |-> k, at |-> now,
                       result |-> r.result,
                       evicted |-> DOMAIN r.cache # DOMAIN cache]
    /\ calls' = calls + 1
    /\ UNCHANGED <<now, chainVars, rankVars, textVars, appVars, restVars>>

CacheClear ==
    /\ calls < MaxCacheOps
    /\ cache' = MemoryCache_clear(cache)
    /\ stats' = ZeroStats
    /\ calls' = calls + 1
    /\ last' = [op |-> "clear"]
    /\ UNCHANGED <<now, chainVars, rankVars, textVars, appVars, restVars>>

CacheSpec ==
    IdleInit
    /\ [][\/ \E q \in Questions, k \in CacheTopKs, a \in {<<"A1">>, <<"A2">>},
                s \in {<<Doc(<<"a">>, "c1")>>} :
                 CacheSet(q, k, a, s)
          \/ \E q \in Questions, k \in CacheTopKs : CacheGet(q, k)
          \/ CacheClear
          \/ Tick]_vars

----------------------------------------------------------------------------
(* Specification ThreadSpec: one MemoryCache called from several threads.  *)
(* A thread can be preempted between any two statements of a method; a     *)
(* single dict operation is atomic.                                        *)

\* what no MemoryCache method touches
threadFrame == <<chainVars, rankVars, textVars, appVars,
                 documents_table, embeddings_table, run, indexVars>>

\* the thread enters get, set, delete or clear
ThreadCall(t, op, key) ==
    /\ calls < MaxCacheOps
    /\ threads[t].pc = "idle"
    /\ calls' = calls + 1
    /\ threads' = [threads EXCEPT ![t] =
           [IdleThread EXCEPT !.pc = op, !.op = op, !.key = key]]
    /\ UNCHANGED <<cache, stats, now, last, threadFrame>>

Returned(th, result, t) ==
    [th EXCEPT !.pc = "idle", !.outcome = "returned", !.result = result, !.at = t]

Raised(th, t) ==
    [th EXCEPT !.pc = "idle", !.outcome = "KeyError", !.at = t]

\* get: if key not in self.cache: return None
GetCheck(t) ==
    /\ threads[t].pc = "get"
    /\ threads' = [threads EXCEPT ![t] =
           IF threads[t].key \notin DOMAIN cache
           THEN Returned(threads[t], None, now)
           ELSE [threads[t] EXCEPT !.pc = "get_read"]]
    /\ UNCHANGED <<cache, stats, now, calls, last, threadFrame>>

\* get: entry = self.cache[key]
GetRead(t) ==
    /\ threads[t].pc = "get_read"
    /\ threads' = [threads EXCEPT ![t] =
           IF threads[t].key \notin DOMAIN cache
           THEN Raised(threads[t], now)
           ELSE [threads[t] EXCEPT !.pc = "get_expiry",
                                   !.entry = Some(cache[threads[t].key])]]
    /\ UNCHANGED <<cache, stats, now, calls, last, threadFrame>>

\* get: if time.time() > entry["expires_at"], else return entry["value"]
GetExpiry(t) ==
    /\ threads[t].pc = "get_expiry"
    /\ threads' = [threads EXCEPT ![t] =
           IF now > threads[t].entry[1].expires_at
           THEN [threads[t] EXCEPT !.pc = "get_del"]
           ELSE Returned(threads[t], Some(threads[t].entry[1].value), now)]
    /\ UNCHANGED <<cache, stats, now, calls, last, threadFrame>>

\* get: del self.cache[key]; return None
GetDel(t) ==
    /\ threads[t].pc = "get_del"
    /\ IF threads[t].key \notin DOMAIN cache
       THEN /\ threads' = [threads EXCEPT ![t] = Raised(threads[t], now)]
            /\ UNCHANGED cache
       ELSE /\ threads' = [threads EXCEPT ![t] = Returned(threads[t], None, now)]
            /\ cache' = Remove(cache, threads[t].key)
    /\ UNCHANGED <<stats, now, calls, last, threadFrame>>

\* set: self.cache[key] = {...}
ThreadSet(t, value) ==
    /\ threads[t].pc = "set"
    /\ cache' = MemoryCache_set(cache, threads[t].key, value, Ttl, now)
    /\ threads' = [threads EXCEPT ![t] = Returned(threads[t], None, now)]
    /\ UNCHANGED <<stats, now, calls, last, threadFrame>>

\* delete: if key in self.cache
DeleteCheck(t) ==
    /\ threads[t].pc = "delete"
    /\ threads' = [threads EXCEPT ![t] =
           IF threads[t].key \in DOMAIN cache
           THEN [threads[t] EXCEPT !.pc = "delete_del"]
           ELSE Returned(threads[t], None, now)]
    /\ UNCHANGED <<cache, stats, now, calls, last, threadFrame>>

\* delete: del self.cache[key]
DeleteDel(t) ==
    /\ threads[t].pc = "delete_del"
    /\ IF threads[t].key \notin DOMAIN cache
       THEN /\ threads' = [threads EXCEPT ![t] = Raised(threads[t], now)]
            /\ UNCHANGED cache
       ELSE /\ threads' = [threads EXCEPT ![t] = Returned(threads[t], None, now)]
            /\ cache' = Remove(cache, threads[t].key)
    /\ UNCHANGED <<stats, now, calls, last, threadFrame>>

\* clear: self.cache.clear()
ThreadClear(t) ==
    /\ threads[t].pc = "clear"
    /\ cache' = MemoryCache_clear(cache)
    /\ threads' = [threads EXCEPT ![t] = Returned(threads[t], None, now)]
    /\ UNCHANGED <<stats, now, calls, last, threadFrame>>

ThreadTick ==
    /\ now < MaxTime
    /\ now' = now + 1
    /\ UNCHANGED <<cache, stats, calls, last, threads, threadFrame>>

ThreadSpec ==
    IdleInit
    /\ [][\/ \E t \in Threads, op \in {"get", "set", "delete", "clear"}, key \in {"k1"} :
                 ThreadCall(t, op, key)
          \/ \E t \in Threads : GetCheck(t)
          \/ \E t \in Threads : GetRead(t)
          \/ \E t \in Threads : GetExpiry(t)
          \/ \E t \in Threads : GetDel(t)
          \/ \E t \in Threads, value \in {"v1"} : ThreadSet(t, value)
          \/ \E t \in Threads : DeleteCheck(t)
          \/ \E t \in Threads : DeleteDel(t)
          \/ \E t \in Threads : ThreadClear(t)
          \/ ThreadTick]_vars

----------------------------------------------------------------------------
(* The embedder: DocumentChunker, EmbeddingGenerator, VectorStore and      *)
(* DocumentEmbedder.process_documents.                                     *)

\* what the input directory holds for each url f"cv://{pdf_path.stem}": the
\* text extracted from the PDF, or no file
Directories == [{"cv://a", "cv://b"} -> {"v1", "v2", "absent"}]

\* a document as CVLoader.load builds it; content_hash is _compute_hash(text)
LoadedDocument(url, text) ==
    [content |-> text, url |-> url, content_hash |-> <<"md5", text>>]

\* DocumentChunker.chunk_document; the splitter cuts the text "v1" into
\* MaxChunks pieces and any other text into one
chunk_document(document) ==
    IF document.content = "" THEN <<>>
    ELSE [i \in 1..(IF document.content = "v1" THEN MaxChunks ELSE 1) |->
             [url |-> document.url, chunk_index |-> i - 1,
              chunk_text |-> <<document.content, i - 1>>]]

\* stop_after_attempt(3)
MaxAttempts == 3

\* the loop of generate_embeddings from offset i (0-based): chunks done so far
\* and the provider attempts of each batch so far. r is the call of
\* _generate_embeddings_batch under the retry decorator, when the provider
\* fails failures[b] times in a row before it answers batch b.
RECURSIVE EmbedFrom(_, _, _, _, _, _)
EmbedFrom(chunks, i, batch_size, failures, done, attempts) ==
    IF i >= Len(chunks) THEN [chunks |-> done, attempts |-> attempts]
    ELSE LET batch == SubSeq(chunks, i + 1, Min({i + batch_size, Len(chunks)}))
             fails == failures[Len(attempts) + 1]
             r     == IF fails >= MaxAttempts
                      THEN [raised |-> TRUE, attempts |-> MaxAttempts]
                      ELSE [raised |-> FALSE, attempts |-> fails + 1]
             marked == [j \in 1..Len(batch) |->
                           [url |-> batch[j].url,
                            chunk_index |-> batch[j].chunk_index,
                            chunk_text |-> batch[j].chunk_text,
                            embedding |-> IF r.raised THEN None
                                          ELSE Some(<<"vector", batch[j].chunk_text>>),
                            error |-> IF r.raised THEN Some("RetryError") ELSE None]]
         IN EmbedFrom(chunks, i + batch_size, batch_size, failures,
                      done \o marked, Append(attempts, r.attempts))

\* a generator that returns only the chunks it could embed
generate_embeddings_dropping(chunks, batch_size, failures) ==
    IF chunks = <<>> THEN [chunks |-> <<>>, attempts |-> <<>>]
    ELSE LET r == EmbedFrom(chunks, 0, batch_size, failures, <<>>, <<>>)
         IN [chunks |-> SelectSeq(r.chunks, LAMBDA c : c.embedding # None),
             attempts |-> r.attempts]

\* EmbeddingGenerator.generate_embeddings
generate_embeddings(chunks, batch_size, failures) ==
    IF chunks = <<>> THEN [chunks |-> <<>>, attempts |-> <<>>]
    ELSE EmbedFrom(chunks, 0, batch_size, failures, <<>>, <<>>)

\* a lookup that never finds the document
get_document_info_missing(docs, url) == None

\* VectorStore.get_document_info
get_document_info(docs, url) ==
    IF url \in DOMAIN docs THEN Some([id |-> url, content_hash |-> docs[url]]) ELSE None

\* VectorStore.insert_document: INSERT ... ON CONFLICT (url) DO UPDATE
insert_document(docs, url, content_hash) ==
    [u \in DOMAIN docs \cup {url} |-> IF u = url THEN content_hash ELSE docs[u]]

\* VectorStore.delete_embeddings_for_document
delete_embeddings_for_document(rows, document_id) ==
    LET kept == {r \in BagToSet(rows) : r.document_id # document_id}
    IN [r \in kept |-> rows[r]]

EmbeddingRow(document_id, chunk) ==
    [document_id |-> document_id, chunk_index |-> chunk.chunk_index,
     chunk_text |-> chunk.chunk_text]

\* VectorStore.insert_embeddings: one INSERT and commit per chunk that has an
\* embedding; a failing INSERT is rolled back and the loop goes on
RECURSIVE InsertFrom(_, _, _, _, _)
InsertFrom(db, chunks, i, insert_fails, inserted) ==
    IF i > Len(chunks) THEN [db |-> db, inserted |-> inserted]
    ELSE LET chunk == chunks[i] IN
         IF chunk.embedding = None \/ chunk.chunk_index \in insert_fails
         THEN InsertFrom(db, chunks, i + 1, insert_fails, inserted)
         ELSE LET docs == IF chunk.url \in DOMAIN db.documents THEN db.documents
                          ELSE insert_document(db.documents, chunk.url, "")
              IN InsertFrom([documents |-> docs,
                             embeddings |-> db.embeddings
                                            (+) SetToBag({EmbeddingRow(chunk.url, chunk)})],
                            chunks, i + 1, insert_fails, inserted + 1)

insert_embeddings(db, chunks, insert_fails) == InsertFrom(db, chunks, 1, insert_fails, 0)

DocumentResult(db, outcome, embedded, attempts, deleted, inserted) ==
    [db |-> db, outcome |-> outcome, embedded |-> embedded, attempts |-> attempts,
     deleted |-> deleted, inserted |-> inserted]

\* the body of the loop of process_documents for one document; fault is what
\* goes wrong while it is processed: "none", or the step that raises
ProcessDocument(db, document, force_reprocess, fault) ==
    LET url          == document.url
        content_hash == document.content_hash
        skipped(outcome) == DocumentResult(db, outcome, <<>>, <<>>, FALSE, 0)
    IN IF url # "unknown" /\ fault = "lookup"
       THEN skipped("raised")
       ELSE
       LET existing == IF url # "unknown" THEN get_document_info(db.documents, url)
                       ELSE None
       IN IF existing # None /\ ~force_reprocess
             /\ existing[1].content_hash = content_hash
          THEN skipped("skipped")
          ELSE IF fault = "chunk" THEN skipped("error")
          ELSE
          LET chunks == chunk_document(document)
          IN IF chunks = <<>> THEN skipped("no_chunks")
             ELSE
             LET failures == [b \in 1..MaxChunks |->
                                 IF fault = "embed_first" /\ b = 1
                                 THEN MaxAttempts ELSE 0]
                 gen == generate_embeddings(chunks, BatchSize, failures)
                 failed(d, deleted) ==
                     DocumentResult(d, "error", gen.chunks, gen.attempts, deleted, 0)
             IN IF fault = "upsert" THEN failed(db, FALSE)
                ELSE
                LET db1 == [db EXCEPT !.documents =
                               insert_document(db.documents, url, content_hash)]
                    replace == force_reprocess
                               \/ (existing # None
                                   /\ existing[1].content_hash # content_hash)
                IN IF replace /\ fault = "delete" THEN failed(db1, FALSE)
                   ELSE
                   LET db2 == IF replace
                              THEN [db1 EXCEPT !.embeddings =
                                       delete_embeddings_for_document(db1.embeddings, url)]
                              ELSE db1
                       ins == insert_embeddings(db2, gen.chunks,
                                  IF fault = "insert" THEN {0} ELSE {})
                   IN DocumentResult(ins.db, "processed", gen.chunks, gen.attempts,
                                     replace, ins.inserted)

\* the loop of process_documents from document i on
RECURSIVE ProcessFrom(_, _, _, _, _, _)
ProcessFrom(db, documents, i, force_reprocess, faults, results) ==
    IF i > Len(documents) THEN [db |-> db, raised |-> FALSE, results |-> results]
    ELSE LET r == ProcessDocument(db, documents[i], force_reprocess, faults[i])
         IN IF r.outcome = "raised"
            THEN [db |-> r.db, raised |-> TRUE, results |-> Append(results, r)]
            ELSE ProcessFrom(r.db, documents, i + 1, force_reprocess, faults,
                             Append(results, r))

\* DocumentEmbedder.process_documents
process_documents(documents, force_reprocess, faults) ==
    /\ calls < MaxRuns
    /\ calls' = calls + 1
    /\ LET before == [documents |-> documents_table, embeddings |-> embeddings_table]
           r == IF documents = <<>>
                THEN [db |-> before, raised |-> FALSE, results |-> <<>>]
                ELSE ProcessFrom(before, documents, 1, force_reprocess, faults, <<>>)
       IN /\ documents_table' = r.db.documents
          /\ embeddings_table' = r.db.embeddings
          /\ run' = [op |-> "process_documents", documents |-> documents,
                     force_reprocess |-> force_reprocess, faults |-> faults,
                     raised |-> r.raised,
                     results |-> [i \in 1..Len(r.results) |->
                                     [outcome  |-> r.results[i].outcome,
                                      embedded |-> r.results[i].embedded,
                                      attempts |-> r.results[i].attempts,
                                      deleted  |-> r.results[i].deleted,
                                      inserted |-> r.results[i].inserted]]]
    /\ UNCHANGED <<cacheVars, chainVars, last, rankVars, textVars, appVars, threads,
                   indexVars>>

----------------------------------------------------------------------------
(* Specification EmbedderSpec: runs of the embedder over documents loaded  *)
(* from the input directory, with failures of the steps of a run.          *)

\* CVLoader.load: one document per PDF of the directory, in sorted order
CVLoader_load(dir) ==
    LET present == SelectSeq(<<"cv://a", "cv://b">>, LAMBDA u : dir[u] # "absent")
    IN [i \in 1..Len(present) |-> LoadedDocument(present[i], dir[present[i]])]

\* a run of main: load the directory, then process what was loaded; the
\* fault, if any, hits the first document of the run
EmbedderSpec ==
    IdleInit
    /\ [][ \E dir \in Directories, force_reprocess \in BOOLEAN,
             fault \in {"none", "lookup", "chunk", "embed_first", "upsert", "delete",
                        "insert"} :
              LET documents == CVLoader_load(dir)
              IN process_documents(documents, force_reprocess,
                     [i \in 1..Len(documents) |-> IF i = 1 THEN fault ELSE "none"])]_vars

----------------------------------------------------------------------------
(* Specification GenerateSpec: generate_embeddings over a list of chunks,  *)
(* a batch size and a provider that fails a number of times per batch,     *)
(* followed by insert_embeddings of what it returned.                      *)

GenerateEmbeddings ==
    /\ run.op = "start"
    /\ LET r == generate_embeddings(run.chunks, run.batch_size, run.failures)
       IN run' = [op |-> "generate_embeddings", chunks |-> run.chunks,
                  batch_size |-> run.batch_size, failures |-> run.failures,
                  returned |-> r.chunks, attempts |-> r.attempts]
    /\ UNCHANGED <<documents_table, embeddings_table, threads, indexVars, coreVars>>

InsertEmbeddings ==
    /\ run.op = "generate_embeddings"
    /\ LET r == insert_embeddings([documents |-> documents_table,
                                   embeddings |-> embeddings_table],
                                  run.returned, {})
       IN /\ documents_table' = r.db.documents
          /\ embeddings_table' = r.db.embeddings
          /\ run' = [run EXCEPT !.op = "insert_embeddings"]
    /\ UNCHANGED <<threads, indexVars, coreVars>>

GenerateInit ==
    /\ CacheInit
    /\ ChainIdle
    /\ RankIdle
    /\ TextIdle
    /\ AppIdle
    /\ threads = [t \in Threads |-> IdleThread]
    /\ bm25_index = None
    /\ documents_cache = <<>>
    /\ calls = 0
    /\ last = NoOp
    /\ documents_table = <<>>
    /\ embeddings_table = EmptyBag
    /\ \E n \in 0..MaxChunks, b \in 1..BatchSize :
           \E f \in [1..MaxChunks -> 0..MaxAttempts] :
               run = [op |-> "start",
                      \* the first n chunks of a document
                      chunks |-> SubSeq(chunk_document(LoadedDocument("cv://a", "v1")),
                                        1, n),
                      batch_size |-> b, failures |-> f]

GenerateSpec == GenerateInit /\ [][GenerateEmbeddings \/ InsertEmbeddings]_vars

----------------------------------------------------------------------------
(* VectorRetriever.retrieve: ORDER BY distance LIMIT k *)

RECURSIVE VectorRetriever_retrieve(_, _, _)
VectorRetriever_retrieve(q, k, chunks) ==
    IF k = 0 \/ chunks = {} THEN <<>>
    ELSE LET best == CHOOSE c \in chunks :
                         \A d \in chunks : Similarity(q, c) >= Similarity(q, d)
         IN <<Doc(q, best)>> \o VectorRetriever_retrieve(q, k - 1, chunks \ {best})

----------------------------------------------------------------------------
(* ConversationalRAGChain *)

\* Python s[-n:] : the last n elements, and the whole list when n = 0
LastSlice(s, n) ==
    IF n = 0 \/ n >= Len(s) THEN s ELSE SubSeq(s, Len(s) - n + 1, Len(s))

TrimHistory(history, n) ==
    IF Len(history) > n THEN LastSlice(history, n) ELSE history

\* a line of the context that is not a source block
Header(text) == [kind |-> text, index |-> 0, content |-> ""]

\* d.get("similarity", 0), in tenths
doc_similarity(d) == IF "similarity" \in DOMAIN d THEN d.similarity ELSE 0

\* the "[Source n]" blocks of one tier, numbered from first
SourceBlocks(docs, tier, first) ==
    [i \in 1..Len(docs) |->
        [kind |-> tier, index |-> first + i - 1, content |-> docs[i].content]]

\* _format_context_with_quality_tiers: the context as its list of parts; the
\* tiers are similarity >= 0.75, 0.5 <= similarity < 0.75, similarity < 0.5
format_context(retrieved_docs) ==
    IF retrieved_docs = <<>>
    THEN <<Header("No relevant information was found in the database.")>>
    ELSE LET high_relevance ==
                 SelectSeq(retrieved_docs, LAMBDA d : 4 * doc_similarity(d) >= 30)
             medium_relevance ==
                 SelectSeq(retrieved_docs,
                           LAMBDA d : /\ 2 * doc_similarity(d) >= 10
                                      /\ 4 * doc_similarity(d) < 30)
             low_relevance ==
                 SelectSeq(retrieved_docs, LAMBDA d : 2 * doc_similarity(d) < 10)
             nh == Len(high_relevance)
             nm == Len(medium_relevance)
         IN (IF high_relevance # <<>>
             THEN <<Header("## HIGH RELEVANCE SOURCES (Primary References)")>>
                      \o SourceBlocks(high_relevance, "high", 1)
             ELSE <<>>)
            \o (IF medium_relevance # <<>>
                THEN <<Header("## MEDIUM RELEVANCE SOURCES (Supportive Context)")>>
                         \o SourceBlocks(medium_relevance, "medium", nh + 1)
                ELSE <<>>)
            \o (IF low_relevance # <<>> /\ nh + nm < 3
                THEN <<Header("## LOW RELEVANCE SOURCES (Background Only)")>>
                         \o SourceBlocks(low_relevance, "low", nh + nm + 1)
                ELSE <<>>)
            \o <<Header("## SOURCE USAGE RULES:")>>

format_chat_history(history, n) ==
    IF history = <<>> THEN <<"No prior conversation.">> ELSE LastSlice(history, n)

\* QueryAnalyzer.augment_short_query: topics.items() in insertion order
Topics == <<"profile", "experience", "skills", "education">>

Augmentation ==
    <<"about the candidate profile", "about the professional experience",
      "about the candidate skills", "about the education">>

augment_short_query(query, chat_history) ==
    IF Len(Split(query)) > 2 THEN [question |-> query, was_augmented |-> FALSE]
    ELSE IF chat_history = <<>> THEN [question |-> query, was_augmented |-> FALSE]
    ELSE LET last_a  == chat_history[Len(chat_history)][2]
             found   == {t \in 1..Len(Topics) : Topics[t] \in Range(Lower(last_a))}
         IN IF found = {} THEN [question |-> query, was_augmented |-> FALSE]
            ELSE [question |-> query \o <<" ", Augmentation[Min(found)]>>,
                  was_augmented |-> TRUE]

auto_augment_short_queries == TRUE

\* PromptOptimizer.create_prompt: the prompt and its analysis metadata
create_prompt(context, chat_history, question, chat_history_list) ==
    LET aug == IF auto_augment_short_queries /\ chat_history_list # <<>>
               THEN augment_short_query(question, chat_history_list)
               ELSE [question |-> question, was_augmented |-> FALSE]
    IN [prompt   |-> [context |-> context, chat_history |-> chat_history,
                      question |-> aug.question],
        metadata |-> [original_question |-> question,
                      was_augmented |-> aug.was_augmented]]

\* a history that records the question as the prompt asked it
append_turn_as_asked(history, question, response, n) ==
    TrimHistory(Append(history, <<augment_short_query(question, history).question,
                                  response>>), n)

\* self.conversation_history.append((question, response)), then the trim
append_turn(history, question, response, n) ==
    TrimHistory(Append(history, <<question, response>>), n)

\* a failed completion call whose error escapes _generate_response
generate_response_raising(llm) ==
    IF llm.ok THEN [raised |-> FALSE, text |-> llm.text]
    ELSE [raised |-> TRUE, text |-> <<>>]

\* _generate_response: the completion text, or the error text as the answer
generate_response(llm) ==
    IF llm.ok THEN [raised |-> FALSE, text |-> llm.text]
    ELSE [raised |-> FALSE, text |-> <<"Error generating response: ">> \o llm.text]

LLMOutcomes ==
    {[ok |-> TRUE, text |-> a] : a \in Answers}
        \cup {[ok |-> FALSE, text |-> <<e>>] : e \in ErrorTexts}

\* a lookup that never finds anything
query_lookup_blind(question, k) ==
    [result |-> None, cache |-> cache, stats |-> stats]

\* the cache lookup at the head of query
query_lookup(question, k) ==
    IF cache_enabled
    THEN ResponseCache_get(cache, stats, question, k, now)
    ELSE [result |-> None, cache |-> cache, stats |-> stats]

\* a retriever whose failure is turned into an empty result
retriever_retrieve_swallowing(question, k, embed_ok) ==
    [raised |-> FALSE,
     docs   |-> IF embed_ok THEN VectorRetriever_retrieve(question, k, corpus) ELSE <<>>]

\* self.retriever.retrieve(question, top_k=k): the results, or the exception of
\* the query embedding / vector search
retriever_retrieve(question, k, embed_ok) ==
    IF embed_ok
    THEN [raised |-> FALSE, docs |-> VectorRetriever_retrieve(question, k, corpus)]
    ELSE [raised |-> TRUE, docs |-> <<>>]

\* self.max_traces
max_traces == 100

\* trace.__exit__(None, None, None) in the finally block: the generator of
\* trace_pipeline resumes after its yield as if the body had ended normally,
\* so trace.finish() leaves error at None, the request is recorded as a
\* success and the trace is stored
TraceExit(m) ==
    LET stored == Append(m.traces, [error |-> None])
    IN [m EXCEPT !.requests_success = @ + 1,
                 !.traces = IF Len(stored) > max_traces THEN Tail(stored) ELSE stored]

\* ConversationalRAGChain.query. fault names the call that the environment
\* makes raise: "none", the cache backend's get ("cache.get"), its set
\* ("cache.set") or the MetricsCollector record_* calls ("metrics"). obs is
\* what the call did; its fields are filled in as the call proceeds.
query(question, top_k, embed_ok, llm, fault) ==
    /\ calls < MaxCalls
    /\ calls' = calls + 1
    /\ UNCHANGED <<now, max_history, cache_enabled, corpus, rankVars, textVars>>
    /\ LET k   == IF top_k = 0 THEN DefaultTopK ELSE top_k
           obs == [op |-> "query", q |-> question, k |-> k,
                   nchunks |-> Cardinality(corpus),
                   hit |-> FALSE, llm_failed |-> FALSE, retrieval_failed |-> FALSE,
                   cache_failed |-> FALSE, metrics_failed |-> FALSE,
                   augmented |-> FALSE, asked |-> <<>>,
                   outcome |-> "raised", answer |-> <<>>, sources |-> <<>>,
                   steps |-> <<>>]
       IN IF cache_enabled /\ fault = "cache.get"
          THEN \* backend.get raises inside ResponseCache.get
               /\ UNCHANGED <<cache, stats, conversation_history>>
               /\ metrics' = TraceExit(metrics)
               /\ last' = [obs EXCEPT !.cache_failed = TRUE,
                                      !.steps = <<"cache.get">>]
          ELSE
          LET looked == query_lookup(question, k)
              s0     == IF cache_enabled THEN <<"cache.get">> ELSE <<>>
          IN IF cache_enabled /\ fault = "metrics"
             THEN \* record_cache_hit / record_cache_miss raises
                  /\ cache' = looked.cache
                  /\ stats' = looked.stats
                  /\ UNCHANGED conversation_history
                  /\ metrics' = TraceExit(metrics)
                  /\ last' = [obs EXCEPT !.metrics_failed = TRUE, !.steps = s0]
             ELSE IF looked.result # None
             THEN \* cache hit
                  /\ cache' = looked.cache
                  /\ stats' = looked.stats
                  /\ metrics' = TraceExit([metrics EXCEPT !.cache_hits = @ + 1])
                  /\ UNCHANGED conversation_history
                  /\ last' = [obs EXCEPT !.hit = TRUE,
                                         !.outcome = "returned",
                                         !.answer = looked.result[1].response,
                                         !.sources = looked.result[1].sources,
                                         !.steps = s0]
             ELSE
             LET m1  == IF cache_enabled
                        THEN [metrics EXCEPT !.cache_misses = @ + 1]
                        ELSE metrics
                 ret == retriever_retrieve(question, k, embed_ok)
                 s1  == s0 \o <<"retrieve">>
             IN IF ret.raised
                THEN \* the exception of retriever.retrieve leaves query
                     /\ cache' = looked.cache
                     /\ stats' = looked.stats
                     /\ metrics' = TraceExit(m1)
                     /\ UNCHANGED conversation_history
                     /\ last' = [obs EXCEPT !.retrieval_failed = ~embed_ok,
                                            !.steps = s1]
                ELSE IF fault = "metrics"
                THEN \* record_retrieval raises
                     /\ cache' = looked.cache
                     /\ stats' = looked.stats
                     /\ metrics' = TraceExit(m1)
                     /\ UNCHANGED conversation_history
                     /\ last' = [obs EXCEPT !.metrics_failed = TRUE,
                                            !.retrieval_failed = ~embed_ok,
                                            !.steps = s1]
                ELSE
                LET retrieved_docs == ret.docs
                    context  == format_context(retrieved_docs)
                    history  == format_chat_history(conversation_history, max_history)
                    made     == create_prompt(context, history, question,
                                              conversation_history)
                    gen      == generate_response(llm)
                    s2       == s1 \o <<"create_prompt", "generate">>
                IN IF gen.raised
                   THEN /\ cache' = looked.cache
                        /\ stats' = looked.stats
                        /\ metrics' = TraceExit(m1)
                        /\ UNCHANGED conversation_history
                        /\ last' = [obs EXCEPT !.llm_failed = ~llm.ok,
                                               !.retrieval_failed = ~embed_ok,
                                               !.augmented = made.metadata.was_augmented,
                                               !.asked = made.prompt.question,
                                               !.steps = s2]
                   ELSE
                   LET response == gen.text
                       s3 == s2 \o <<"validate", "history.append">>
                       done == [obs EXCEPT !.llm_failed = ~llm.ok,
                                           !.retrieval_failed = ~embed_ok,
                                           !.augmented = made.metadata.was_augmented,
                                           !.asked = made.prompt.question,
                                           !.answer = response,
                                           !.sources = retrieved_docs]
                   IN /\ conversation_history' =
                             append_turn(conversation_history, question, response,
                                         max_history)
                      /\ metrics' = TraceExit(m1)
                      /\ IF ~cache_enabled
                         THEN /\ cache' = looked.cache
                              /\ stats' = looked.stats
                              /\ last' = [done EXCEPT !.outcome = "returned",
                                                      !.steps = s3]
                         ELSE IF fault = "cache.set"
                         THEN \* backend.set raises inside ResponseCache.set
                              /\ cache' = looked.cache
                              /\ stats' = looked.stats
                              /\ last' = [done EXCEPT !.cache_failed = TRUE,
                                                      !.answer = <<>>,
                                                      !.sources = <<>>,
                                                      !.steps = s3 \o <<"cache.set">>]
                         ELSE LET stored == ResponseCache_set(looked.cache, looked.stats,
                                                question, k, response, retrieved_docs, now)
                              IN /\ cache' = stored.cache
                                 /\ stats' = stored.stats
                                 /\ last' = [done EXCEPT !.outcome = "returned",
                                                         !.steps = s3 \o <<"cache.set">>]

clear_history ==
    /\ calls < MaxCalls
    /\ conversation_history # <<>>
    /\ conversation_history' = <<>>
    /\ calls' = calls + 1
    /\ last' = [op |-> "clear_history"]
    /\ UNCHANGED <<cacheVars, max_history, cache_enabled, corpus, metrics, rankVars, textVars, appVars, restVars>>

\* the ingestion pipeline stores the chunks of one more document
Ingest(c) ==
    /\ c \notin corpus
    /\ corpus' = corpus \cup {c}
    /\ UNCHANGED <<cacheVars, conversation_history, max_history, cache_enabled,
                   metrics, calls, last, rankVars, textVars, appVars, restVars>>

Init ==
    /\ CacheInit
    /\ conversation_history = <<>>
    /\ max_history \in 0..MaxHistory
    /\ cache_enabled \in BOOLEAN
    /\ corpus = {}
    /\ metrics = ZeroMetrics
    /\ RankIdle
    /\ TextIdle
    /\ AppIdle
    /\ RestIdle
    /\ calls = 0
    /\ last = NoOp

Next ==
    \/ \E q \in ChainQuestions, k \in ChainTopKs, e \in BOOLEAN, llm \in LLMOutcomes :
           query(q, k, e, llm, "none") /\ UNCHANGED <<appVars, restVars>>
    \/ clear_history
    \/ \E c \in Chunks : Ingest(c)
    \/ Tick

Spec == Init /\ [][Next]_vars

----------------------------------------------------------------------------
(* Specification FaultSpec: the chain of Spec in an environment where the  *)
(* cache backend and the metrics recorder can raise.                       *)
(* The clock stands still: no entry expires while faults are injected.     *)

FaultSpec ==
    Init
    /\ [][\/ \E q \in ChainQuestions, k \in ChainTopKs, e \in BOOLEAN,
                llm \in LLMOutcomes, f \in {"none", "cache.get", "cache.set", "metrics"} :
                 query(q, k, e, llm, f) /\ UNCHANGED <<appVars, restVars>>
          \/ clear_history
          \/ \E c \in Chunks : Ingest(c)]_vars

----------------------------------------------------------------------------
(* Specification FooterSpec: the chain of Spec with a completion provider  *)
(* that ends its answers with the sources footer the system prompt asks    *)
(* for.                                                                    *)

\* the footer heading, as one word of an answer
FooterToken == "**Sources consulted:**"

\* the completion texts end with a sources footer
FooterSpec ==
    Init
    /\ [][\/ \E q \in ChainQuestions, k \in ChainTopKs,
                a \in {<<"skills", "[1]", FooterToken, "[1]", "cv">>,
                       <<FooterToken, "[1]", "cv">>} :
                 query(q, k, TRUE, [ok |-> TRUE, text |-> a], "none")
                     /\ UNCHANGED <<appVars, restVars>>
          \/ clear_history
          \/ \E c \in Chunks : Ingest(c)
          \/ Tick]_vars

----------------------------------------------------------------------------
(* Specification AppSpec: the API process, where every client of           *)
(* POST /query is served by the one chain that create_app builds.          *)

top_k_results == 5

\* POST /query sent by a client; the handler runs rag_chain.query to its end
\* before the next request is served
query_endpoint(client, payload_question, payload_top_k, embed_ok, llm) ==
    LET question == Strip(payload_question)
        top_k    == IF payload_top_k = 0 THEN top_k_results ELSE payload_top_k
    IN /\ question # <<>>
       /\ query(question, top_k, embed_ok, llm, "none")
       /\ UNCHANGED restVars
       /\ turn_clients' =
              IF "history.append" \in Range(last'.steps)
              THEN TrimHistory(Append(turn_clients, client), max_history)
              ELSE turn_clients
       /\ served' =
              [op |-> "query",
               client |-> client,
               prompted |-> "create_prompt" \in Range(last'.steps),
               history_block_clients |->
                   IF conversation_history = <<>> THEN {}
                   ELSE Range(LastSlice(turn_clients, max_history)),
               augmentation_clients |-> Range(turn_clients),
               status |-> IF last'.outcome = "returned" THEN 200 ELSE 500]

\* payload.question is one word, possibly with surrounding whitespace
AppSpec ==
    Init
    /\ [][\/ \E client \in {"client1", "client2"},
                q \in {p \in Questions : Len(Split(p)) = 1}, k \in ChainTopKs,
                e \in BOOLEAN, llm \in LLMOutcomes :
                 query_endpoint(client, q, k, e, llm)
          \/ \E c \in Chunks : Ingest(c)]_vars

----------------------------------------------------------------------------
(* Specification ContextSpec: _format_context_with_quality_tiers over the  *)
(* result lists a retriever can hand to the chain.                         *)

\* HybridRetriever orders by hybrid_score, so similarities come in any order.
\* The similarity of a result is a value in tenths, no such key (a result
\* found by BM25 only), or the key holding None.
RetrievedLists ==
    LET choices == {[kind |-> "absent"], [kind |-> "null"]}
                       \cup {[kind |-> "value", tenths |-> t] : t \in {2, 5, 8}}
        result(i, sim) ==
            IF sim.kind = "absent" THEN [content |-> ToString(i)]
            ELSE IF sim.kind = "null"
                 THEN [content |-> ToString(i), similarity_null |-> TRUE]
                 ELSE [content |-> ToString(i), similarity |-> sim.tenths]
    IN UNION {{[i \in 1..n |-> result(i, f[i])] : f \in [1..n -> choices]} :
                  n \in 0..MaxDocs}

FormatContext ==
    /\ text_pc = "start"
    /\ IF \E i \in 1..Len(docs_in) : "similarity_null" \in DOMAIN docs_in[i]
       THEN \* None >= 0.75 raises TypeError
            context_out' = <<>> /\ text_pc' = "raised"
       ELSE context_out' = format_context(docs_in) /\ text_pc' = "done"
    /\ UNCHANGED <<docs_in, response_in, sources_in, context_in, validation,
                   cacheVars, chainVars, calls, last, rankVars, appVars, restVars>>

ContextInit ==
    /\ CacheInit
    /\ ChainIdle
    /\ RankIdle
    /\ calls = 0
    /\ last = NoOp
    /\ docs_in \in RetrievedLists
    /\ context_out = <<>>
    /\ response_in = <<>>
    /\ sources_in = <<>>
    /\ context_in = <<>>
    /\ validation = <<>>
    /\ text_pc = "start"
    /\ AppIdle
    /\ RestIdle

ContextSpec == ContextInit /\ [][FormatContext]_vars

----------------------------------------------------------------------------
(* HybridRetriever: _normalize_scores, _merge_and_rerank, retrieve *)

Zero == [num |-> 0, den |-> 1]

\* x >= y for fractions with positive denominators
FracGeq(x, y) == x.num * y.den >= y.num * x.den

\* min-max scaling that maps a list of equal scores to 0
normalize_scores_zero(scores) ==
    IF scores = <<>> THEN <<>>
    ELSE LET min_score == Min(Range(scores))
             max_score == Max(Range(scores))
         IN [i \in 1..Len(scores) |->
                IF max_score - min_score > 0
                THEN [num |-> scores[i] - min_score, den |-> max_score - min_score]
                ELSE Zero]

\* _normalize_scores on the list of raw scores
normalize_scores(scores) ==
    IF scores = <<>> THEN <<>>
    ELSE LET min_score == Min(Range(scores))
             max_score == Max(Range(scores))
         IN [i \in 1..Len(scores) |->
                IF max_score - min_score > 0
                THEN [num |-> scores[i] - min_score, den |-> max_score - min_score]
                ELSE [num |-> 1, den |-> 1]]

\* the in-place effect of _normalize_scores on the two result lists
NormalizeVector(results) ==
    LET n == normalize_scores([i \in 1..Len(results) |-> results[i].similarity])
    IN [i \in 1..Len(results) |->
           [content |-> results[i].content, similarity |-> results[i].similarity,
            similarity_normalized |-> n[i]]]

NormalizeBm25(results) ==
    LET n == normalize_scores([i \in 1..Len(results) |-> results[i].bm25_score])
    IN [i \in 1..Len(results) |->
           [content |-> results[i].content, bm25_score |-> results[i].bm25_score,
            bm25_score_normalized |-> n[i]]]

IndexOf(merged, key) ==
    LET hits == {i \in 1..Len(merged) : merged[i].content = key}
    IN IF hits = {} THEN 0 ELSE Min(hits)

\* merged[key] = {**r, "vector_score": ..., "bm25_score_norm": 0}
RECURSIVE AddVector(_, _)
AddVector(merged, results) ==
    IF results = <<>> THEN merged
    ELSE LET r == Head(results)
             e == [content |-> r.content, source |-> "vector",
                   vector_score |-> r.similarity_normalized,
                   bm25_score_norm |-> Zero]
             i == IndexOf(merged, r.content)
         IN AddVector(IF i = 0 THEN Append(merged, e) ELSE [merged EXCEPT ![i] = e],
                      Tail(results))

RECURSIVE AddBm25(_, _)
AddBm25(merged, results) ==
    IF results = <<>> THEN merged
    ELSE LET r == Head(results)
             i == IndexOf(merged, r.content)
         IN AddBm25(IF i = 0
                    THEN Append(merged,
                                [content |-> r.content, source |-> "bm25",
                                 vector_score |-> Zero,
                                 bm25_score_norm |-> r.bm25_score_normalized])
                    ELSE [merged EXCEPT ![i].bm25_score_norm = r.bm25_score_normalized],
                    Tail(results))

\* a combination that forgets the (1 - alpha) weight
HybridScoreUnweighted(a, v, b) ==
    [num |-> a * v.num * b.den + AlphaDen * b.num * v.den,
     den |-> AlphaDen * v.den * b.den]

\* alpha * vector_score + (1 - alpha) * bm25_score_norm, alpha = a / AlphaDen
HybridScore(a, v, b) ==
    [num |-> a * v.num * b.den + (AlphaDen - a) * b.num * v.den,
     den |-> AlphaDen * v.den * b.den]

WithHybrid(merged, a) ==
    [i \in 1..Len(merged) |->
        [content |-> merged[i].content, source |-> merged[i].source,
         vector_score |-> merged[i].vector_score,
         bm25_score_norm |-> merged[i].bm25_score_norm,
         hybrid_score |-> HybridScore(a, merged[i].vector_score,
                                      merged[i].bm25_score_norm)]]

\* an insertion that puts e in front of the elements with an equal score
InsertDescFront(sorted, e) ==
    LET ahead == {i \in 1..Len(sorted) :
                      ~FracGeq(e.hybrid_score, sorted[i].hybrid_score)}
        n     == IF ahead = {} THEN 0 ELSE Max(ahead)
    IN SubSeq(sorted, 1, n) \o <<e>> \o SubSeq(sorted, n + 1, Len(sorted))

\* stable insertion of e behind every element whose score is not smaller
InsertDesc(sorted, e) ==
    LET ahead == {i \in 1..Len(sorted) : FracGeq(sorted[i].hybrid_score, e.hybrid_score)}
        n     == IF ahead = {} THEN 0 ELSE Max(ahead)
    IN SubSeq(sorted, 1, n) \o <<e>> \o SubSeq(sorted, n + 1, Len(sorted))

RECURSIVE SortDesc(_, _)
SortDesc(sorted, rest) ==
    IF rest = <<>> THEN sorted ELSE SortDesc(InsertDesc(sorted, Head(rest)), Tail(rest))

\* the merged values in insertion order, not sorted
Unsorted(docs) == docs

\* sorted(merged.values(), key=hybrid_score, reverse=True)
SortedByHybrid(docs) == SortDesc(<<>>, docs)

merge_and_rerank(vresults, bresults, a) ==
    SortedByHybrid(WithHybrid(AddBm25(AddVector(<<>>, vresults), bresults), a))

\* final_top_k = top_k or self.top_k_vector
FinalTopK(top_k) == IF top_k = 0 THEN MaxVec ELSE top_k

Truncate(s, n) == SubSeq(s, 1, IF n < Len(s) THEN n ELSE Len(s))

----------------------------------------------------------------------------
(* Specification RankSpec: one HybridRetriever.retrieve over the result    *)
(* lists the two searches can return.                                      *)

\* chunk texts; only their equality matters to the retriever
ContentNames == <<"x", "y", "z">>

\* the texts are named in the order in which the two lists first mention them
NamedInOrder(vresults, bresults) ==
    LET texts == [i \in 1..Len(vresults) |-> vresults[i].content]
                     \o [i \in 1..Len(bresults) |-> bresults[i].content]
    IN \A i \in 1..Len(texts) : \A n \in 2..Len(ContentNames) :
           texts[i] = ContentNames[n]
               => \E j \in 1..i - 1 : texts[j] = ContentNames[n - 1]

HybridRetrieve(top_k) ==
    /\ rank_pc = "start"
    /\ top_k_in' = top_k
    /\ vector_results' = NormalizeVector(vector_results)
    /\ bm25_results' = NormalizeBm25(bm25_results)
    /\ hybrid_results' = merge_and_rerank(vector_results', bm25_results', alpha)
    /\ final_results' = Truncate(hybrid_results', FinalTopK(top_k))
    /\ rank_pc' = "done"
    /\ UNCHANGED <<alpha, cacheVars, chainVars, calls, last, textVars, appVars, restVars>>

RankInit ==
    /\ CacheInit
    /\ ChainIdle
    /\ TextIdle
    /\ AppIdle
    /\ RestIdle
    /\ calls = 0
    /\ last = NoOp
    \* vector search orders by distance: similarities never increase
    /\ vector_results \in
           {l \in ListsUpTo([content : Range(ContentNames),
                             similarity : 0..MaxScore], MaxVec) :
               \A i \in 1..Len(l) - 1 : l[i].similarity >= l[i + 1].similarity}
    \* _bm25_search orders by score and keeps positive scores only
    /\ bm25_results \in
           {l \in ListsUpTo([content : Range(ContentNames),
                             bm25_score : 1..MaxScore], MaxBm25) :
               \A i \in 1..Len(l) - 1 : l[i].bm25_score >= l[i + 1].bm25_score}
    /\ NamedInOrder(vector_results, bm25_results)
    /\ alpha \in 0..AlphaDen
    /\ top_k_in = 0
    /\ rank_pc = "start"
    /\ hybrid_results = <<>>
    /\ final_results = <<>>

RankSpec == RankInit /\ [][\E top_k \in 1..MaxTopK : HybridRetrieve(top_k)]_vars

----------------------------------------------------------------------------
(* Text helpers for the validator: re.findall, "in", str.split, len *)

Digits == {"0", "1", "2", "3", "4", "5", "6", "7", "8", "9"}

DigitSeq == <<"0", "1", "2", "3", "4", "5", "6", "7", "8", "9">>

\* int(digits)
RECURSIVE ToInt(_)
ToInt(ds) ==
    IF ds = <<>> THEN 0
    ELSE 10 * ToInt(SubSeq(ds, 1, Len(ds) - 1))
         + (CHOOSE i \in 1..Len(DigitSeq) : DigitSeq[i] = ds[Len(ds)]) - 1

\* pat occurs in s at position i
Occurs(s, pat, i) ==
    i + Len(pat) - 1 <= Len(s) /\ SubSeq(s, i, i + Len(pat) - 1) = pat

\* pat in s
Contains(s, pat) == \E i \in 1..Len(s) - Len(pat) + 1 : Occurs(s, pat, i)

WordStarts(s) ==
    {i \in 1..Len(s) : s[i] \notin Whitespace /\ (i = 1 \/ s[i - 1] \in Whitespace)}

WordAt(s, i) ==
    SubSeq(s, i, CHOOSE j \in i..Len(s) :
                     /\ j = Len(s) \/ s[j + 1] \in Whitespace
                     /\ \A m \in i..j : s[m] \notin Whitespace)

\* set(s.split())
Words(s) == {WordAt(s, i) : i \in WordStarts(s)}

----------------------------------------------------------------------------
(* GuardrailValidator and PromptOptimizer.validate_response *)

\* re.findall(r'\[\d+\]', response), as the spans of the matches
InlineCitations(response) ==
    {span \in {i \in 1..Len(response) : response[i] = "["}
                 \X {j \in 1..Len(response) : response[j] = "]"} :
        /\ span[2] > span[1] + 1
        /\ \A m \in span[1] + 1..span[2] - 1 : response[m] \in Digits}

\* the cited numbers without 0
CitedNumbersPositive(response) ==
    {ToInt(SubSeq(response, span[1] + 1, span[2] - 1)) : span \in InlineCitations(response)}
        \ {0}

\* set(int(re.search(r'\d+', c).group()) for c in inline_citations)
CitedNumbers(response) ==
    {ToInt(SubSeq(response, span[1] + 1, span[2] - 1)) : span \in InlineCitations(response)}

FootnoteMarker == <<"*", "*", "S", "o", "u", "r", "c", "e", "s", " ", "c", "o", "n", "s", "u", "l", "t", "e", "d", ":", "*", "*">>

\* hallucination_phrases["en"], as written in the source
HallucinationPhrases ==
    <<<<"i", "n", " ", "m", "y", " ", "k", "n", "o", "w", "l", "e", "d", "g", "e">>,
      <<"a", "s", " ", "f", "a", "r", " ", "a", "s", " ", "I", " ", "k", "n", "o", "w">>,
      <<"i", "n", " ", "m", "y", " ", "e", "x", "p", "e", "r", "i", "e", "n", "c", "e">>,
      <<"I", " ", "t", "h", "i", "n", "k">>,
      <<"I", " ", "i", "m", "a", "g", "i", "n", "e">>,
      <<"p", "r", "o", "b", "a", "b", "l", "y", " ", "w", "i", "t", "h", "o", "u", "t">>>>

MinLength == 10

ContextMinLength == 50

MaxWords == 700

\* GuardrailValidator.validate_response: the issues in the order of the
\* checks; scores are counted in hundredths, max(0.0, 1.0 - len(issues) * 0.15)
GuardrailValidator_validate_response(response, context, sources) ==
    LET
        cited     == CitedNumbers(response)
        available == 1..Len(sources)
        rwords    == Words(Lower(response))
        common    == Words(Lower(context)) \cap rwords
        lower     == Lower(response)
        nwords    == Cardinality(WordStarts(response))  \* len(response.split())
        \* expected_words["en"]
        target_words ==
            {<<"t", "h", "e">>, <<"i", "s">>, <<"a", "r", "e">>, <<"o", "f">>,
             <<"a", "n", "d">>, <<"t", "o">>, <<"a">>, <<"i", "n">>,
             <<"f", "o", "r">>, <<"w", "i", "t", "h">>}
        english   == Cardinality({i \in WordStarts(lower) : WordAt(lower, i) \in target_words})
        \* phrase in response_lower, for each phrase of the list
        found_hallucinations ==
            {p \in 1..Len(HallucinationPhrases) : Contains(lower, HallucinationPhrases[p])}
        issues ==
            (IF response = <<>> \/ Len(Strip(response)) < MinLength
                THEN <<"Response too short or empty">> ELSE <<>>)
               \o (IF sources # <<>> /\ InlineCitations(response) = {}
                   THEN <<"Missing inline citations [N]">> ELSE <<>>)
               \o (IF sources # <<>> /\ ~Contains(response, FootnoteMarker)
                   THEN <<"Missing footnote section with sources">> ELSE <<>>)
               \o (IF sources # <<>> /\ InlineCitations(response) # {} /\ available \ cited # {}
                   THEN <<"Sources not cited">> ELSE <<>>)
               \o (IF sources # <<>> /\ InlineCitations(response) # {} /\ cited \ available # {}
                   THEN <<"Citations to non-existent sources">> ELSE <<>>)
               \o (IF Len(context) > ContextMinLength
                      /\ 10 * Cardinality(common) > 8 * Max({Cardinality(rwords), 1})
                   THEN <<"Response appears to copy context without synthesis">> ELSE <<>>)
               \o (IF 100 * english < 8 * Max({nwords, 1})
                   THEN <<"Response may not be in expected language">> ELSE <<>>)
               \o (IF nwords > MaxWords
                   THEN <<"Response too long">> ELSE <<>>)
               \o (IF found_hallucinations # {}
                   THEN <<"Hallucination indicators found">> ELSE <<>>)
    IN [passed |-> Len(issues) = 0,
        issues |-> issues,
        score  |-> Max({0, 100 - 15 * Len(issues)}),
        inline_citations_count |-> Cardinality(InlineCitations(response)),
        has_footnotes |-> Contains(response, FootnoteMarker)]

IsDigitAt(s, i) == i \in 1..Len(s) /\ s[i] \in Digits

\* r'\d+[\s]*X' for a currency sign X
AmountBefore(s, sign) ==
    \E j \in {m \in 1..Len(s) : s[m] = sign} :
        \E i \in 1..j - 1 :
            /\ IsDigitAt(s, i)
            /\ \A m \in i + 1..j - 1 : s[m] \in Whitespace

\* r'word.*\d+'
WordThenNumber(s, word) ==
    \E i \in {m \in 1..Len(s) : Occurs(s, word, m)} :
        \E j \in i + Len(word)..Len(s) :
            /\ IsDigitAt(s, j)
            /\ \A m \in i + Len(word)..j - 1 : s[m] # "\n"

\* r'\d+tail'
NumberThen(s, tail) == \E i \in 1..Len(s) : IsDigitAt(s, i) /\ Occurs(s, tail, i + 1)

\* GuardrailValidator.detect_fabricated_claims: the claim types that matched
detect_fabricated_claims(response) ==
    LET s == Lower(response)
    IN (IF AmountBefore(s, "€") THEN <<"specific price in euros">> ELSE <<>>)
       \o (IF AmountBefore(s, "$") THEN <<"specific price in dollars">> ELSE <<>>)
       \o (IF \E i \in 1..Len(s) :
                 /\ Occurs(s, <<"f", "o", "u", "n", "d", "e", "d", " ", "i", "n", " ">>, i)
                 /\ \A d \in 0..3 : IsDigitAt(s, i + 11 + d)
           THEN <<"founding year">> ELSE <<>>)
       \o (IF WordThenNumber(s, <<"c", "o", "s", "t", "s">>) THEN <<"cost statement">> ELSE <<>>)
       \o (IF WordThenNumber(s, <<"p", "r", "i", "c", "e">>) THEN <<"price statement">> ELSE <<>>)
       \o (IF NumberThen(s, <<" ", "e", "m", "p", "l", "o", "y", "e", "e", "s">>)
           THEN <<"employee count">> ELSE <<>>)
       \o (IF NumberThen(s, <<"%", " ", "o", "f">>) THEN <<"specific percentage">> ELSE <<>>)

validate_output == TRUE

\* a validation that leaves the score alone when claims look fabricated
PromptOptimizer_validate_response_no_penalty(response, context, sources) ==
    LET v == GuardrailValidator_validate_response(response, context, sources)
        fabricated_claims == detect_fabricated_claims(response)
    IN [passed |-> v.passed /\ fabricated_claims = <<>>,
        issues |-> IF fabricated_claims # <<>>
                   THEN Append(v.issues, "Potential fabricated claims") ELSE v.issues,
        score  |-> v.score,
        inline_citations_count |-> v.inline_citations_count,
        has_footnotes |-> v.has_footnotes,
        fabricated_claims |-> fabricated_claims,
        has_fabricated_claims |-> fabricated_claims # <<>>]

PromptOptimizer_validate_response(response, context, sources) ==
    IF ~validate_output
    THEN [passed |-> TRUE, issues |-> <<>>, score |-> 100,
          validation_skipped |-> TRUE]
    ELSE LET v == GuardrailValidator_validate_response(response, context, sources)
             fabricated_claims == detect_fabricated_claims(response)
         IN [passed |-> IF fabricated_claims # <<>> THEN FALSE ELSE v.passed,
             issues |-> IF fabricated_claims # <<>>
                        THEN Append(v.issues, "Potential fabricated claims")
                        ELSE v.issues,
             score  |-> IF fabricated_claims # <<>>
                        THEN Max({0, v.score - 30}) ELSE v.score,
             inline_citations_count |-> v.inline_citations_count,
             has_footnotes |-> v.has_footnotes,
             fabricated_claims |-> fabricated_claims,
             has_fabricated_claims |-> fabricated_claims # <<>>]

----------------------------------------------------------------------------
(* Specification ValidateSpec: PromptOptimizer.validate_response over      *)
(* answers assembled from the pieces the checks look for.                  *)

\* answers of up to MaxParts fragments separated by single spaces, and two
\* answers of more than MaxWords words
Responses ==
    LET fragments ==
            {<<"[", "0", "]">>,
             <<"[", "1", "]">>,
             <<"[", "2", "]">>,
             <<"I", " ", "t", "h", "i", "n", "k">>,
             <<"I", "n", " ", "m", "y", " ", "k", "n", "o", "w", "l", "e", "d", "g", "e">>,
             <<"t", "h", "e">>,
             FootnoteMarker,
             <<"9", "€">>}
        long_filler == [i \in 1..2 * MaxWords |-> IF i % 2 = 1 THEN "x" ELSE " "]
    IN {Join(parts) : parts \in ListsUpTo(fragments, MaxParts)}
           \cup {long_filler \o <<"x">>,
                 long_filler \o <<"[", "2", "]", " ", "I", "n", " ", "m", "y", " ",
                                  "k", "n", "o", "w", "l", "e", "d", "g", "e">>}

ValidateResponse ==
    /\ text_pc = "start"
    /\ validation' = PromptOptimizer_validate_response(response_in, context_in, sources_in)
    /\ text_pc' = "done"
    /\ UNCHANGED <<docs_in, context_out, response_in, sources_in, context_in,
                   cacheVars, chainVars, calls, last, rankVars, appVars, restVars>>

ValidateInit ==
    /\ CacheInit
    /\ ChainIdle
    /\ RankIdle
    /\ calls = 0
    /\ last = NoOp
    /\ docs_in = <<>>
    /\ context_out = <<>>
    /\ response_in \in Responses
    /\ sources_in \in {[i \in 1..n |-> [content |-> ToString(i)]] : n \in 0..MaxSources}
    /\ context_in \in {<<>>, response_in}
    /\ validation = <<>>
    /\ text_pc = "start"
    /\ AppIdle
    /\ RestIdle

ValidateSpec == ValidateInit /\ [][ValidateResponse]_vars

----------------------------------------------------------------------------
(* HybridRetriever's BM25 index over the rows of table embeddings *)

\* chunk_text of the rows, by row id; every chunk is one word
RowWords == <<"A", "s", "i">>

EmbeddingRows ==
    {[id |-> i, content |-> <<RowWords[((i - 1) % Len(RowWords)) + 1]>>] : i \in 1..MaxRows}

\* cur.fetchall(): the rows of the table at the time of the SELECT, by id
RECURSIVE fetchall(_)
fetchall(rows) ==
    IF rows = {} THEN <<>>
    ELSE LET r == CHOOSE r \in rows : \A o \in rows : r.id <= o.id
         IN <<r>> \o fetchall(rows \ {r})

\* text.lower().split()
Tokenize(text) == Split(Lower(text))

\* BM25Okapi(tokenized_corpus): the index holds the tokenized documents
BM25Okapi(tokenized_corpus) == [corpus |-> tokenized_corpus]

Sign(n) == IF n > 0 THEN 1 ELSE IF n < 0 THEN -1 ELSE 0

RECURSIVE Product(_, _)
Product(f, S) ==
    IF S = {} THEN 1
    ELSE LET x == CHOOSE x \in S : TRUE IN f[x] * Product(f, S \ {x})

\* the number of indexed documents that contain the token
DocumentFrequency(index, token) ==
    Cardinality({i \in 1..Len(index.corpus) : token \in Range(index.corpus[i])})

\* idf = log(N - n + 0.5) - log(n + 0.5), whose sign is the sign of N - 2n
RawIdfSign(index, token) ==
    Sign(Len(index.corpus) - 2 * DocumentFrequency(index, token))

\* the sign of average_idf, the mean of idf over the vocabulary: the sum of
\* the logarithms is positive when the product of the ratios exceeds 1
AverageIdfSign(index) ==
    LET N == Len(index.corpus)
        V == UNION {Range(index.corpus[i]) : i \in 1..Len(index.corpus)}
    IN Sign(Product([t \in V |-> 2 * N - 2 * DocumentFrequency(index, t) + 1], V)
              - Product([t \in V |-> 2 * DocumentFrequency(index, t) + 1], V))

\* bm25_index.get_scores(tokenized_query) for a query of one word: one score
\* per indexed document, 0 for a document without the word and otherwise of
\* the sign of the word's idf. The chunks are one word long, so the scores
\* of the documents that hold the word are equal and only the sign is kept.
\* BM25Okapi replaces a negative idf by epsilon * average_idf.
get_scores(index, tokenized_query) ==
    [i \in 1..Len(index.corpus) |->
        LET shared == Range(tokenized_query) \cap Range(index.corpus[i])
            token  == CHOOSE t \in shared : TRUE
        IN IF shared = {} THEN 0
           ELSE IF RawIdfSign(index, token) < 0 THEN AverageIdfSign(index)
           ELSE RawIdfSign(index, token)]

\* _load_documents_for_bm25: documents_cache is replaced by the rows read;
\* bm25_index is replaced only when there is at least one row
load_documents_for_bm25(index, rows) ==
    LET fetched == fetchall(rows)
        tokenized_corpus == [i \in 1..Len(fetched) |-> Tokenize(fetched[i].content)]
    IN [documents_cache |-> fetched,
        bm25_index |-> IF tokenized_corpus # <<>>
                       THEN Some(BM25Okapi(tokenized_corpus)) ELSE index]

\* _ensure_bm25_index
ensure_bm25_index(index, documents, rows) ==
    IF index = None \/ documents = <<>>
    THEN load_documents_for_bm25(index, rows)
    ELSE [documents_cache |-> documents, bm25_index |-> index]

\* what neither the index nor the table owns
indexFrame == <<cacheVars, conversation_history, max_history, cache_enabled,
                metrics, rankVars, textVars, appVars, threads,
                documents_table, embeddings_table, run>>

\* _bm25_search(query, top_k)
bm25_search(query_text, top_k) ==
    /\ calls < MaxIndexOps
    /\ calls' = calls + 1
    /\ LET ensured == ensure_bm25_index(bm25_index, documents_cache, corpus)
           obs == [op |-> "bm25_search", query |-> query_text, top_k |-> top_k]
       IN /\ bm25_index' = ensured.bm25_index
          /\ documents_cache' = ensured.documents_cache
          /\ IF ensured.bm25_index = None
             THEN last' = obs @@ [outcome |-> "returned", results |-> <<>>]
             ELSE LET scores == get_scores(ensured.bm25_index[1], Tokenize(query_text))
                      indices_with(v) ==
                          SelectSeq([i \in 1..Len(scores) |-> i], LAMBDA i : scores[i] = v)
                      \* sorted(range(len(scores)), key=lambda i: scores[i],
                      \*        reverse=True)[:top_k]
                      top_indices ==
                          Truncate(indices_with(1) \o indices_with(0) \o indices_with(-1),
                                   top_k)
                      relevant == SelectSeq(top_indices, LAMBDA idx : scores[idx] > 0)
                  IN IF \E n \in 1..Len(relevant) :
                            relevant[n] > Len(ensured.documents_cache)
                     THEN \* self.documents_cache[idx] is out of range
                          last' = obs @@ [outcome |-> "IndexError", results |-> <<>>]
                     ELSE last' = obs @@
                              [outcome |-> "returned",
                               results |->
                                   [n \in 1..Len(relevant) |->
                                       [id |-> ensured.documents_cache[relevant[n]].id,
                                        content |->
                                            ensured.documents_cache[relevant[n]].content,
                                        bm25_score |-> scores[relevant[n]]]]]
    /\ UNCHANGED <<corpus, indexFrame>>

refresh_bm25_index ==
    /\ calls < MaxIndexOps
    /\ calls' = calls + 1
    /\ LET loaded == load_documents_for_bm25(bm25_index, corpus)
       IN /\ bm25_index' = loaded.bm25_index
          /\ documents_cache' = loaded.documents_cache
    /\ last' = [op |-> "refresh_bm25_index"]
    /\ UNCHANGED <<corpus, indexFrame>>

\* the embedder inserts a row into table embeddings
InsertRow(row) ==
    /\ row \notin corpus
    /\ corpus' = corpus \cup {row}
    /\ UNCHANGED <<indexVars, calls, last, indexFrame>>

\* the embedder deletes a row of table embeddings
DeleteRow(row) ==
    /\ row \in corpus
    /\ corpus' = corpus \ {row}
    /\ UNCHANGED <<indexVars, calls, last, indexFrame>>

----------------------------------------------------------------------------
(* Specification IndexSpec: one HybridRetriever's BM25 searches and index  *)
(* refreshes while the embedder changes table embeddings.                  *)

IndexInit ==
    /\ CacheInit
    /\ conversation_history = <<>>
    /\ max_history = 0
    /\ cache_enabled = TRUE
    /\ metrics = ZeroMetrics
    /\ corpus \in SUBSET EmbeddingRows
    /\ RankIdle
    /\ TextIdle
    /\ AppIdle
    /\ RestIdle
    /\ calls = 0
    /\ last = NoOp

\* the queries are of one word
IndexSpec ==
    IndexInit
    /\ [][\/ \E q \in {<<"a">>, <<"S">>, <<"?">>}, top_k \in 1..MaxBm25 :
                 bm25_search(q, top_k)
          \/ refresh_bm25_index
          \/ \E row \in EmbeddingRows : InsertRow(row)
          \/ \E row \in EmbeddingRows : DeleteRow(row)]_vars

----------------------------------------------------------------------------
(* Claims about the response cache (CacheSpec) *)

\* the normal form the cache key is documented to use: lowercased,
\* whitespace-collapsed, trailing punctuation stripped
RECURSIVE StripTrailingPunctuation(_)
StripTrailingPunctuation(s) ==
    IF s # <<>> /\ s[Len(s)] \in Punctuation \cup Whitespace
    THEN StripTrailingPunctuation(SubSeq(s, 1, Len(s) - 1)) ELSE s

Canonical(q) == StripTrailingPunctuation(Join(Split(Lower(q))))

Fresh(c, key, t) == key \in DOMAIN c /\ t <= c[key].value.timestamp + Ttl

\* C5: after set(q, k, ans, sources), before expiry and with no clear, get(q', k)
\* returns the stored (ans, sources) for q' = q and for every q' that differs
\* from q only in letter case, whitespace or trailing punctuation.
C5_VariantsHitSameEntry ==
    last.op = "get" =>
        \A q \in Questions :
            LET key == generate_cache_key(q, last.k) IN
            (Canonical(q) = Canonical(last.q) /\ Fresh(cache, key, last.at))
                => last.result = Some(cache[key].value)

\* C6: get never returns an entry whose time-to-live has elapsed since the
\* most recent set on its key.
C6_NoHitAfterTtl ==
    (last.op = "get" /\ last.result # None)
        => last.at <= last.result[1].timestamp + Ttl

\* a get found its entry expired, dropped it and answered absent
C6_Witness ==
    last.op = "get" /\ last.evicted /\ last.result = None /\ last.at > Ttl

----------------------------------------------------------------------------
(* Claims about ConversationalRAGChain.query (Spec) *)

QueryStep == calls' = calls + 1 /\ last'.op = "query"

\* C1: when the cache holds an unexpired entry for (question, topK), query
\* returns exactly the cached (answer, sources), performs no retrieval, prompt
\* creation, generation, validation, history append or cache.set, and leaves
\* conversation_history and the cache contents as they were.
C1_CacheHitIsPure ==
    [][(QueryStep /\ cache_enabled
            /\ Fresh(cache, generate_cache_key(last'.q, last'.k), now))
        => LET entry == cache[generate_cache_key(last'.q, last'.k)].value IN
           /\ last'.outcome = "returned"
           /\ last'.answer = entry.response
           /\ last'.sources = entry.sources
           /\ last'.steps = <<"cache.get">>
           /\ conversation_history' = conversation_history
           /\ cache' = cache]_vars

\* a query answered from the cache while the history holds an earlier turn
C1_Witness ==
    /\ last.op = "query" /\ last.hit
    /\ last.steps = <<"cache.get">>
    /\ conversation_history # <<>>

\* the fixed answer of the empty-retrieval short circuit
NoInformationAnswer == <<"No relevant information was found in the database.">>

\* C2: on a cache miss where the retriever returns an empty list, query returns
\* the fixed no-relevant-information answer and an empty source list, and
\* neither builds a prompt nor calls the language model.
C2_EmptyRetrievalShortCircuits ==
    (last.op = "query" /\ ~last.hit /\ last.outcome = "returned"
        /\ last.sources = <<>>)
    => /\ last.answer = NoInformationAnswer
       /\ "create_prompt" \notin Range(last.steps)
       /\ "generate" \notin Range(last.steps)

\* C3: the outcome of a query whose retrieval was empty is never cached: once
\* matching chunks are ingested, the next query(q, k) misses the cache, retrieves
\* again and returns the newly retrieved sources.
C3_EmptyRetrievalNotCached ==
    (last.op = "query" /\ last.outcome = "returned" /\ last.nchunks > 0)
    => last.sources # <<>>

\* the max_history most recent elements of s
MostRecent(s, n) ==
    IF Len(s) > n THEN SubSeq(s, Len(s) - n + 1, Len(s)) ELSE s

\* C4: for every max_history >= 0, after each non-cached query
\* len(conversation_history) <= max_history, and the history holds the
\* max_history most recent turns in their original order.
C4_HistoryBounded ==
    [][(QueryStep /\ ~last'.hit /\ last'.outcome = "returned")
        => /\ Len(conversation_history') <= max_history
           /\ conversation_history' =
                  MostRecent(Append(conversation_history,
                                    <<last'.q, last'.answer>>), max_history)]_vars

\* C10: when the language-model call raises, query does not raise: it returns
\* an answer embedding the error text, completes its remaining steps, and the
\* turn (question, error-text answer) is the newest entry of the history.
C10_GenerationFailureIsAnswered ==
    (last.op = "query" /\ last.llm_failed)
    => /\ last.outcome = "returned"
       /\ \E e \in ErrorTexts : e \in Range(last.answer)
       /\ last.answer \notin Answers
       /\ "history.append" \in Range(last.steps)
       /\ conversation_history # <<>>
       /\ conversation_history[Len(conversation_history)] = <<last.q, last.answer>>

\* a query whose completion call failed has returned
C10_Witness ==
    /\ last.op = "query" /\ last.llm_failed /\ last.outcome = "returned"
    /\ "generate" \in Range(last.steps)

\* C11: every stored cache value is an answer the language model actually
\* produced, never the synthetic error-text answer of a failed generation.
C11_OnlyGeneratedAnswersCached ==
    \A key \in DOMAIN cache : cache[key].value.response \in Answers

LookupKey == generate_cache_key(last'.q, last'.k)

\* C12 as stated: when retrieval fails the query raises, returns no answer, and
\* conversation_history and the cache are exactly as they were before the query.
C12_RetrievalFailureLeavesAllUntouched ==
    [][(QueryStep /\ last'.retrieval_failed)
        => /\ last'.outcome = "raised"
           /\ last'.answer = <<>> /\ last'.sources = <<>>
           /\ conversation_history' = conversation_history
           /\ cache' = cache]_vars

\* C12 amended: when retrieval fails the query raises, returns no answer, leaves
\* conversation_history exactly as it was, and creates or changes no cache
\* entry; the only entry that can disappear is an expired one under the
\* query's own key, dropped by the lookup that preceded the retrieval.
C12_RetrievalFailureAborts ==
    [][(QueryStep /\ last'.retrieval_failed)
        => /\ last'.outcome = "raised"
           /\ last'.answer = <<>> /\ last'.sources = <<>>
           /\ conversation_history' = conversation_history
           /\ stats'.sets = stats.sets
           /\ \A x \in DOMAIN cache' : x \in DOMAIN cache /\ cache'[x] = cache[x]
           /\ \A x \in DOMAIN cache \ DOMAIN cache' :
                  x = LookupKey /\ now > cache[x].expires_at]_vars

\* a failed retrieval behind an earlier answered turn, whose lookup dropped the
\* expired entry of that turn
C12_Witness ==
    /\ last.op = "query" /\ last.retrieval_failed /\ last.outcome = "raised"
    /\ conversation_history # <<>>
    /\ stats.sets > 0 /\ cache = <<>>

\* the documented normal form of a raw question: trimmed, internal whitespace
\* collapsed, trailing punctuation stripped
NormalizeQuestion(q) == StripTrailingPunctuation(Join(Split(q)))

\* C14: query passes the normalized question to the cache and to the retriever,
\* so a raw question retrieves what its normalized form retrieves and is cached
\* under the key of its normalized form.
C14_NormalizedQuestionIsUsed ==
    [][(QueryStep /\ ~last'.hit /\ last'.outcome = "returned")
        => /\ last'.sources =
                  VectorRetriever_retrieve(NormalizeQuestion(last'.q), last'.k, corpus)
           /\ cache_enabled =>
                  generate_cache_key(NormalizeQuestion(last'.q), last'.k)
                      \in DOMAIN cache']_vars

\* C15: when a short question is augmented, only the question text of the
\* prompt carries the augmentation: the turn stored in conversation_history,
\* the cache key and the retrieval all use the original question.
C15_AugmentationOnlyInPrompt ==
    [][(QueryStep /\ last'.augmented)
        => /\ \E t \in 1..Len(Augmentation) :
                  last'.asked = last'.q \o <<" ", Augmentation[t]>>
           /\ last'.outcome = "returned"
           /\ conversation_history' # <<>>
           /\ conversation_history'[Len(conversation_history')]
                  = <<last'.q, last'.answer>>
           /\ last'.sources = VectorRetriever_retrieve(last'.q, last'.k, corpus)
           /\ cache_enabled =>
                  /\ LookupKey \in DOMAIN cache'
                  /\ cache'[LookupKey].value.response = last'.answer
                  /\ generate_cache_key(last'.asked, last'.k) \notin DOMAIN cache']_vars

\* an augmented query that retrieved chunks and stored its answer
C15_Witness ==
    /\ last.op = "query" /\ last.augmented /\ last.outcome = "returned"
    /\ last.asked # last.q
    /\ last.sources # <<>>
    /\ cache_enabled /\ cache # <<>>

----------------------------------------------------------------------------
(* Claims about subsystem failures (FaultSpec) *)

\* C13: when the cache backend's get or set raises, or a metrics recording call
\* raises, query still returns its freshly computed answer and sources.
C13_SubsystemFailuresContained ==
    (last.op = "query" /\ (last.cache_failed \/ last.metrics_failed))
        => last.outcome = "returned" /\ last.answer # <<>>

----------------------------------------------------------------------------
(* Claims about HybridRetriever (RankSpec) *)

InUnit(x) == x.den > 0 /\ 0 <= x.num /\ x.num <= x.den

\* C7: retrieve returns at most topK results, sorted by non-increasing
\* hybrid_score, whatever the vector and BM25 lists contain.
C7_AtMostTopKSorted ==
    rank_pc = "done" =>
        /\ Len(final_results) <= top_k_in
        /\ \A i, j \in 1..Len(final_results) :
               i < j => FracGeq(final_results[i].hybrid_score,
                                final_results[j].hybrid_score)

\* a retrieval that had to cut the ranking and whose ranking is not flat
C7_Witness ==
    /\ rank_pc = "done"
    /\ Len(hybrid_results) > top_k_in
    /\ Len(final_results) = top_k_in
    /\ \E i \in 1..Len(final_results) - 1 :
           ~FracGeq(final_results[i + 1].hybrid_score, final_results[i].hybrid_score)

\* the min-max contract for one list of raw scores and its normalized scores
Normalized(raw, norm) ==
    LET lo == Min(Range(raw))
        hi == Max(Range(raw))
    IN /\ Len(norm) = Len(raw)
       /\ \A i \in 1..Len(raw) :
              /\ InUnit(norm[i])
              /\ (lo < hi /\ raw[i] = lo) => norm[i].num = 0
              /\ (lo < hi /\ raw[i] = hi) => norm[i].num = norm[i].den
              /\ lo = hi => norm[i].num = norm[i].den

RawVector  == [i \in 1..Len(vector_results) |-> vector_results[i].similarity]
NormVector == [i \in 1..Len(vector_results) |-> vector_results[i].similarity_normalized]
RawBm25    == [i \in 1..Len(bm25_results) |-> bm25_results[i].bm25_score]
NormBm25   == [i \in 1..Len(bm25_results) |-> bm25_results[i].bm25_score_normalized]

\* C8: for a non-empty score list every normalized score lies in [0,1], the
\* minimum maps to 0 and the maximum to 1 when the scores differ, and every
\* score maps to exactly 1 when all scores are equal.
C8_NormalizedScores ==
    rank_pc = "done" =>
        /\ vector_results # <<>> => Normalized(RawVector, NormVector)
        /\ bm25_results # <<>> => Normalized(RawBm25, NormBm25)

\* one list with differing scores and one list of equal scores were normalized
C8_Witness ==
    /\ rank_pc = "done"
    /\ Cardinality(Range(RawVector)) > 1
    /\ Len(bm25_results) > 1 /\ Cardinality(Range(RawBm25)) = 1

VectorContents == {vector_results[i].content : i \in 1..Len(vector_results)}
Bm25Contents   == {bm25_results[i].content : i \in 1..Len(bm25_results)}

\* the normalized scores a content carries in each list, 0 when it is absent
VectorNorms(c) ==
    IF c \in VectorContents
    THEN {vector_results[i].similarity_normalized :
              i \in {j \in 1..Len(vector_results) : vector_results[j].content = c}}
    ELSE {Zero}

Bm25Norms(c) ==
    IF c \in Bm25Contents
    THEN {bm25_results[i].bm25_score_normalized :
              i \in {j \in 1..Len(bm25_results) : bm25_results[j].content = c}}
    ELSE {Zero}

\* h = alpha * v + (1 - alpha) * b
IsWeightedSum(h, v, b) ==
    h.num * AlphaDen * v.den * b.den
        = (alpha * v.num * b.den + (AlphaDen - alpha) * b.num * v.den) * h.den

\* C9: each distinct content of the two lists appears in exactly one merged
\* result, whose hybrid_score is alpha * vectorScoreNorm + (1 - alpha) *
\* lexicalScoreNorm with 0 for an absent score; every hybrid_score is in [0,1].
C9_MergedOncePerContent ==
    rank_pc = "done" =>
        /\ \A c \in VectorContents \cup Bm25Contents :
               Cardinality({i \in 1..Len(hybrid_results) :
                                hybrid_results[i].content = c}) = 1
        /\ \A i \in 1..Len(hybrid_results) :
               LET r == hybrid_results[i] IN
               /\ r.content \in VectorContents \cup Bm25Contents
               /\ r.vector_score \in VectorNorms(r.content)
               /\ r.bm25_score_norm \in Bm25Norms(r.content)
               /\ IsWeightedSum(r.hybrid_score, r.vector_score, r.bm25_score_norm)
               /\ InUnit(r.hybrid_score)

\* a merge of a shared content, a vector-only and a BM25-only content under a
\* weight strictly between 0 and 1
C9_Witness ==
    /\ rank_pc = "done"
    /\ 0 < alpha /\ alpha < AlphaDen
    /\ VectorContents \cap Bm25Contents # {}
    /\ VectorContents \ Bm25Contents # {}
    /\ Bm25Contents \ VectorContents # {}
    /\ Len(hybrid_results) = 3

\* the place of a content in the vector list (its first mention, which is
\* where the merge keeps it) and whether two results have equal hybrid scores
VectorRank(c) == IndexOf(vector_results, c)

TiedResults(a, b) ==
    FracGeq(a.hybrid_score, b.hybrid_score) /\ FracGeq(b.hybrid_score, a.hybrid_score)

\* C25: in the ranking of _merge_and_rerank, two results with equal
\* hybrid_score that both come from vector search keep the order of the
\* vector list, and a result found by vector search precedes a BM25-only
\* result with the same hybrid_score.
C25_TiesKeepVectorOrder ==
    rank_pc = "done" =>
        \A i, j \in 1..Len(hybrid_results) :
            LET a == hybrid_results[i]
                b == hybrid_results[j]
            IN (i # j /\ TiedResults(a, b)) =>
                   /\ (/\ a.content \in VectorContents
                       /\ b.content \in VectorContents
                       /\ VectorRank(a.content) < VectorRank(b.content)) => i < j
                   /\ (/\ a.content \in VectorContents
                       /\ b.content \notin VectorContents) => i < j

\* a ranking with two tied vector results and with a vector result tied with
\* a BM25-only result at a positive hybrid_score
C25_Witness ==
    /\ rank_pc = "done"
    /\ \E i, j \in 1..Len(hybrid_results) :
           /\ i < j
           /\ TiedResults(hybrid_results[i], hybrid_results[j])
           /\ hybrid_results[i].content \in VectorContents
           /\ hybrid_results[j].content \in VectorContents
    /\ \E i, j \in 1..Len(hybrid_results) :
           /\ i < j
           /\ TiedResults(hybrid_results[i], hybrid_results[j])
           /\ hybrid_results[i].hybrid_score.num > 0
           /\ hybrid_results[i].content \in VectorContents
           /\ hybrid_results[j].content \notin VectorContents

----------------------------------------------------------------------------
(* Claims about the context block (ContextSpec) *)

IsSourceBlock(part) == part.index > 0

\* C16: the context holds one source block per retrieved result, whatever its
\* similarity and also when it has none, numbered 1..n in retrieval order, so
\* block N is result N of the returned source list.
C16_ContextListsEveryResult ==
    text_pc \in {"done", "raised"} =>
        LET blocks == SelectSeq(context_out, IsSourceBlock)
        IN /\ Len(blocks) = Len(docs_in)
           /\ \A i \in 1..Len(blocks) :
                  blocks[i].index = i /\ blocks[i].content = docs_in[i].content

----------------------------------------------------------------------------
(* Claims about answer validation (ValidateSpec) *)

Validated == text_pc = "done" /\ "validation_skipped" \notin DOMAIN validation

HasIssue(text) == text \in Range(validation.issues)

\* the phrases compared after lowercasing both sides
FoundHallucinationsAnyCase(response) ==
    {p \in 1..Len(HallucinationPhrases) :
        Contains(Lower(response), Lower(HallucinationPhrases[p]))}

\* C19: an answer containing a phrase of the hallucination-marker list, in any
\* letter case, gets a hallucination-indicator issue and does not pass.
C19_HallucinationPhrasesFlagged ==
    (Validated /\ FoundHallucinationsAnyCase(response_in) # {})
        => HasIssue("Hallucination indicators found") /\ ~validation.passed

\* the numbers N up to 9 that the answer cites inline as [N]
CitedInline(response) ==
    {n \in 0..9 : Contains(response, <<"[", DigitSeq[n + 1], "]">>)}

SourceIndexes == 1..Len(sources_in)

IssueIn(issues, text) == \E i \in 1..Len(issues) : issues[i] = text

\* C17 as stated: with n >= 1 sources, GuardrailValidator.validate_response
\* passes only if the cited numbers are exactly 1..n; an answer without
\* citation gets the missing-inline-citations issue, an answer leaving an index
\* of 1..n uncited gets the unused-source issue, and an answer citing a number
\* outside 1..n, 0 included, gets the phantom-citation issue.
C17_CitationsExactlyCovered ==
    (Validated /\ sources_in # <<>>) =>
        LET result == GuardrailValidator_validate_response(response_in, context_in, sources_in)
            issues == result.issues
            cited  == CitedInline(response_in)
        IN /\ result.passed => cited = SourceIndexes
           /\ cited = {} => IssueIn(issues, "Missing inline citations [N]")
           /\ SourceIndexes \ cited # {} => IssueIn(issues, "Sources not cited")
           /\ cited \ SourceIndexes # {} => IssueIn(issues, "Citations to non-existent sources")

\* C17 amended: as above, except that the unused-source issue is raised only
\* for an answer that cites at least one number; an answer without any
\* citation gets the missing-inline-citations issue alone.
C17_CitationIssues ==
    (Validated /\ sources_in # <<>>) =>
        LET result == GuardrailValidator_validate_response(response_in, context_in, sources_in)
            issues == result.issues
            cited  == CitedInline(response_in)
        IN /\ result.passed => cited = SourceIndexes
           /\ cited = {} =>
                  /\ IssueIn(issues, "Missing inline citations [N]")
                  /\ ~IssueIn(issues, "Sources not cited")
           /\ (cited # {} /\ SourceIndexes \ cited # {}) => IssueIn(issues, "Sources not cited")
           /\ cited \ SourceIndexes # {} => IssueIn(issues, "Citations to non-existent sources")

\* an answer with sources has passed, citing each of them and nothing else
C17_Witness ==
    /\ Validated /\ sources_in # <<>>
    /\ CitedInline(response_in) = SourceIndexes
    /\ GuardrailValidator_validate_response(response_in, context_in, sources_in).passed

\* C18: score = max(0, 1 - 0.15 * issueCount) over the non-fabrication issues,
\* less 0.3 and floored at 0 when fabricated claims were found; the score is in
\* [0,1]; passed holds exactly when the final issue list is empty, and
\* fabricated claims add an issue. Scores are in hundredths.
C18_ScoreFormula ==
    Validated =>
        LET fabricated == validation.fabricated_claims # <<>>
            issueCount == Len(validation.issues) - (IF fabricated THEN 1 ELSE 0)
            base       == Max({0, 100 - 15 * issueCount})
        IN /\ validation.score = IF fabricated THEN Max({0, base - 30}) ELSE base
           /\ validation.score \in 0..100
           /\ validation.passed <=> validation.issues = <<>>
           /\ fabricated =>
                  /\ validation.issues[Len(validation.issues)] = "Potential fabricated claims"
                  /\ ~validation.passed
           /\ ~fabricated => ~HasIssue("Potential fabricated claims")

\* so many issues that 1 - 0.15 * issueCount is negative, and the score is 0
C18_Witness ==
    /\ Validated
    /\ validation.fabricated_claims = <<>>
    /\ 15 * Len(validation.issues) > 100
    /\ validation.score = 0

----------------------------------------------------------------------------
(* Claims about the API process (AppSpec) *)

\* C20: conversation history is owned per session: the history block and the
\* augmentation input used to answer a client's query hold no turn that
\* another client's query appended.
C20_HistoryPerSession ==
    (served.op = "query" /\ served.prompted) =>
        served.history_block_clients \cup served.augmentation_clients
            \subseteq {served.client}

----------------------------------------------------------------------------
(* Claims about MemoryCache under threads (ThreadSpec) *)

\* C21: under any interleaving of get, set, delete and clear by several
\* threads on one MemoryCache no call raises, and no get returns an entry
\* whose TTL has elapsed.
C21_ConcurrentCacheSafe ==
    \A t \in Threads :
        /\ threads[t].outcome # "KeyError"
        /\ (threads[t].op = "get" /\ threads[t].outcome = "returned"
               /\ threads[t].result # None)
              => threads[t].at <= threads[t].entry[1].expires_at

----------------------------------------------------------------------------
(* Claims about the embedder (EmbedderSpec) *)

Ran == run'.op = "process_documents" /\ calls' = calls + 1

\* the rows table embeddings holds for a document, as a bag
RowsOf(rows, url) ==
    LET own == {r \in BagToSet(rows) : r.document_id = url}
    IN [r \in own |-> rows[r]]

\* one row for each chunk of the document
ChunkRows(document) ==
    LET chunks == chunk_document(document)
    IN SetToBag({EmbeddingRow(document.url, chunks[i]) : i \in 1..Len(chunks)})

StoredWithHash(docs, document) ==
    document.url \in DOMAIN docs /\ docs[document.url] = document.content_hash

\* C22: a run without force_reprocess skips every document whose stored
\* content_hash equals its current one: no embedding call, no delete, no
\* insert, stored document and embeddings unchanged; with force_reprocess
\* the document is reprocessed although the hash is identical.
C22_UnchangedDocumentsSkipped ==
    [][Ran =>
        \A i \in 1..Len(run'.results) :
            LET document == run'.documents[i]
                result   == run'.results[i]
            IN (run'.faults[i] = "none" /\ StoredWithHash(documents_table, document)) =>
                   IF run'.force_reprocess
                   THEN /\ result.outcome = "processed"
                        /\ result.attempts # <<>>
                        /\ result.deleted
                   ELSE /\ result.outcome = "skipped"
                        /\ result.attempts = <<>>
                        /\ ~result.deleted
                        /\ result.inserted = 0
                        /\ StoredWithHash(documents_table', document)
                        /\ RowsOf(embeddings_table', document.url)
                               = RowsOf(embeddings_table, document.url)]_vars

\* a second run over an unchanged document has skipped it
C22_Witness ==
    /\ run.op = "process_documents" /\ calls = 2
    /\ ~run.force_reprocess
    /\ \E i \in 1..Len(run.results) :
           /\ run.results[i].outcome = "skipped"
           /\ RowsOf(embeddings_table, run.documents[i].url) = ChunkRows(run.documents[i])

\* C23: whatever step fails for one document, every remaining document of
\* the list is still processed and process_documents does not raise.
C23_FailuresIsolatedPerDocument ==
    run.op = "process_documents" =>
        /\ ~run.raised
        /\ Len(run.results) = Len(run.documents)

\* C27: after a run has processed a document whose hash changed, or any
\* document under force_reprocess, the stored embeddings of the document are
\* exactly the chunks of its new content, each once.
C27_ReingestionReplacesChunks ==
    [][Ran =>
        \A i \in 1..Len(run'.results) :
            LET document == run'.documents[i]
            IN (run'.results[i].outcome = "processed"
                 /\ document.url \in DOMAIN documents_table
                 /\ (run'.force_reprocess \/ ~StoredWithHash(documents_table, document)))
                => RowsOf(embeddings_table', document.url) = ChunkRows(document)]_vars

\* C28: every stored document row carries its embeddings: the rows of table
\* embeddings for the document include a row for each chunk of the content
\* whose hash the row records.
C28_StoredHashHasEmbeddings ==
    \A url \in DOMAIN documents_table :
        LET document == LoadedDocument(url, documents_table[url][2])
        IN \A r \in BagToSet(ChunkRows(document)) :
               r \in BagToSet(embeddings_table)

----------------------------------------------------------------------------
(* Claims about generate_embeddings (GenerateSpec) *)

Generated == run.op \in {"generate_embeddings", "insert_embeddings"}

\* the batch, counted from 1, that holds the i-th chunk
BatchOf(i, batch_size) == ((i - 1) \div batch_size) + 1

\* C24: generate_embeddings returns every input chunk; it sends
\* ceil(n / batch_size) batches, each with at most 3 provider attempts; the
\* chunks of a batch that still fails are marked embedding = None with an
\* error text, later batches are still attempted, and insert_embeddings never
\* inserts a chunk marked None.
C24_EveryChunkReturned ==
    Generated =>
        LET n == Len(run.chunks)
            b == run.batch_size
            failed(i) == run.failures[BatchOf(i, b)] >= 3
        IN /\ Len(run.returned) = n
           /\ \A i \in 1..n :
                  /\ run.returned[i].chunk_text = run.chunks[i].chunk_text
                  /\ run.returned[i].chunk_index = run.chunks[i].chunk_index
                  /\ IF failed(i)
                     THEN run.returned[i].embedding = None /\ run.returned[i].error # None
                     ELSE run.returned[i].embedding # None
           /\ Len(run.attempts) = (n + b - 1) \div b
           /\ \A k \in 1..Len(run.attempts) :
                  /\ run.attempts[k] \in 1..3
                  /\ run.attempts[k] = Min({run.failures[k] + 1, 3})
           /\ run.op = "insert_embeddings" =>
                  embeddings_table =
                      SetToBag({EmbeddingRow("cv://a", run.chunks[i]) :
                                   i \in {j \in 1..n : ~failed(j)}})

\* the first batch failed three times, a later batch was still embedded
\* after two failures, and only its chunks were inserted
C24_Witness ==
    /\ run.op = "insert_embeddings"
    /\ Len(run.attempts) >= 2
    /\ run.failures[1] = 3
    /\ run.failures[Len(run.attempts)] = 2
    /\ run.returned[1].embedding = None
    /\ run.returned[Len(run.returned)].embedding # None
    /\ BagCardinality(embeddings_table) \in 1..Len(run.chunks) - 1

----------------------------------------------------------------------------
(* Claims about the sources footer (FooterSpec) *)

HasFooter(text) == \E i \in 1..Len(text) : text[i] = FooterToken

\* C26: the answer that query returns, the answers it stores in the
\* conversation history and the answers it caches contain no footer marker:
\* the generated text is cut at the first marker before it is used.
C26_NoFooterInAnswers ==
    /\ (last.op = "query" /\ last.outcome = "returned") => ~HasFooter(last.answer)
    /\ \A i \in 1..Len(conversation_history) : ~HasFooter(conversation_history[i][2])
    /\ \A key \in DOMAIN cache : ~HasFooter(cache[key].value.response)

----------------------------------------------------------------------------
(* Claims about the request metrics (Spec) *)

\* C30: a query that leaves query by an exception stores a trace with an
\* error and is counted under status error and not under success; a query
\* that returns is counted under success exactly once.
C30_MetricsReflectOutcome ==
    [][(calls' = calls + 1 /\ last'.op = "query") =>
          IF last'.outcome = "raised"
          THEN /\ metrics'.requests_error = metrics.requests_error + 1
               /\ metrics'.requests_success = metrics.requests_success
               /\ metrics'.traces # <<>>
               /\ metrics'.traces[Len(metrics'.traces)].error # None
          ELSE /\ metrics'.requests_success = metrics.requests_success + 1
               /\ metrics'.requests_error = metrics.requests_error]_vars

----------------------------------------------------------------------------
(* Claims about the BM25 index (IndexSpec) *)

\* C29: whenever bm25_index is set it was built from exactly the documents
\* of documents_cache, a search never indexes documents_cache out of range,
\* and every chunk a search returns is in documents_cache, the corpus as of
\* the last build.
C29_IndexMatchesDocumentsCache ==
    /\ bm25_index # None =>
           bm25_index[1].corpus =
               [i \in 1..Len(documents_cache) |-> Tokenize(documents_cache[i].content)]
    /\ last.op = "bm25_search" =>
           /\ last.outcome = "returned"
           /\ \A n \in 1..Len(last.results) :
                  \E i \in 1..Len(documents_cache) :
                      /\ documents_cache[i].id = last.results[n].id
                      /\ documents_cache[i].content = last.results[n].content

====
